---- MODULE Spec2Model ----
(***************************************************************************)
(* Model of ludwig/utils/backward_compatibility.py: the in-place migration *)
(* of a configuration document by upgrade_deprecated_fields.               *)
(*                                                                         *)
(* A document is a tree of Python values.  Every value is a record         *)
(* [k |-> kind, v |-> payload]; the kind is compared before the payload,   *)
(* so values of different Python types are unequal, as in Python.          *)
(***************************************************************************)
EXTENDS Integers, Sequences, FiniteSets, TLC

\* stack and visited are the state of a run of _traverse_dicts: the calls in
\* progress, innermost last, and the paths of the values the rule has been
\* applied to, in order
VARIABLES config, config0, after1, pc, pass, err, stack, visited

vars == <<config, config0, after1, pc, pass, err, stack, visited>>

(***************************************************************************)
(* Python values                                                           *)
(***************************************************************************)
VStr(s) == [k |-> "str", v |-> s]
VInt(n) == [k |-> "int", v |-> n]
VFloat(n) == [k |-> "float", v |-> n]
VBool(b) == [k |-> "bool", v |-> b]
VNone == [k |-> "null", v |-> 0]
VMap(f) == [k |-> "map", v |-> f]
VList(s) == [k |-> "list", v |-> s]

EmptyDict == VMap([a \in {} |-> VNone])

IsDict(x) == x.k = "map"
IsList(x) == x.k = "list"

\* key in d
Has(d, key) == key \in DOMAIN d.v
\* d[key]
Item(d, key) == d.v[key]
\* d.get(key, dflt)
Get(d, key, dflt) == IF Has(d, key) THEN d.v[key] ELSE dflt
\* d[key] = val
Put(d, key, val) ==
    VMap([a \in (DOMAIN d.v) \cup {key} |-> IF a = key THEN val ELSE d.v[a]])
\* del d[key]  /  the mapping left by d.pop(key, None)
Del(d, key) == VMap([a \in (DOMAIN d.v) \ {key} |-> d.v[a]])
\* d.update(other)
Update(d, other) ==
    VMap([a \in (DOMAIN d.v) \cup (DOMAIN other.v) |->
            IF a \in DOMAIN other.v THEN other.v[a] ELSE d.v[a]])
Keys(d) == DOMAIN d.v

\* bool(x)
Truthy(x) ==
    CASE x.k = "bool" -> x.v
      [] x.k = "int" -> x.v # 0
      [] x.k = "float" -> x.v # 0
      [] x.k = "str" -> x.v # ""
      [] x.k = "null" -> FALSE
      [] x.k = "map" -> DOMAIN x.v # {}
      [] x.k = "list" -> Len(x.v) > 0

\* x == 0 : Python compares numbers by value across int, float and bool
EqualsZero(x) ==
    \/ x.k \in {"int", "float"} /\ x.v = 0
    \/ x.k = "bool" /\ x.v = FALSE

(***************************************************************************)
(* Constants imported from ludwig.constants                                *)
(***************************************************************************)
COLUMN == "column"
DEFAULTS == "defaults"
EVAL_BATCH_SIZE == "eval_batch_size"
EXECUTOR == "executor"
HYPEROPT == "hyperopt"
INPUT_FEATURES == "input_features"
NUMBER == "number"
OUTPUT_FEATURES == "output_features"
PARAMETERS == "parameters"
PREPROCESSING == "preprocessing"
PROBABILITIES == "probabilities"
RAY == "ray"
SAMPLER == "sampler"
SCHEDULER == "scheduler"
SEARCH_ALG == "search_alg"
SPLIT == "split"
TRAINER == "trainer"
TRAINING == "training"
TYPE == "type"

\* set(base_type_registry): the feature types of ludwig/schema/features
base_type_registry ==
    {"category", "image", "set", "h3", "audio", "timeseries", "date", "bag"}

(***************************************************************************)
(* Python strings as character sequences, for str.startswith and slicing   *)
(* of the keys of hyperopt.parameters.  ParamKeys is the universe of keys   *)
(* the inputs draw from, closed under the rename.                          *)
(***************************************************************************)
Training_ == <<"t", "r", "a", "i", "n", "i", "n", "g">>
Trainer_ == <<"t", "r", "a", "i", "n", "e", "r">>
Combiner_ == <<"c", "o", "m", "b", "i", "n", "e", "r">>
Dot_ == <<".">>
Lr_ == <<"l", "r">>

ParamKeys ==
    {"training.lr", "trainer.lr", "training", "combiner.training.lr",
     "training.training.lr", "trainer.training.lr", "combiner.lr"}

Chars(s) ==
    CASE s = "training.lr" -> Training_ \o Dot_ \o Lr_
      [] s = "trainer.lr" -> Trainer_ \o Dot_ \o Lr_
      [] s = "training" -> Training_
      [] s = "combiner.training.lr" -> Combiner_ \o Dot_ \o Training_ \o Dot_ \o Lr_
      [] s = "training.training.lr" -> Training_ \o Dot_ \o Training_ \o Dot_ \o Lr_
      [] s = "trainer.training.lr" -> Trainer_ \o Dot_ \o Training_ \o Dot_ \o Lr_
      [] s = "combiner.lr" -> Combiner_ \o Dot_ \o Lr_
      [] s = "training." -> Training_ \o Dot_
      [] s = "trainer." -> Trainer_ \o Dot_

StrOf(cs) == CHOOSE s \in ParamKeys : Chars(s) = cs

\* k.startswith(substr)
StartsWith(k, substr) ==
    /\ Len(Chars(k)) >= Len(Chars(substr))
    /\ SubSeq(Chars(k), 1, Len(Chars(substr))) = Chars(substr)

\* "trainer." + k[len(substr):]
TrainerKey(k, substr) ==
    StrOf(Chars("trainer.") \o SubSeq(Chars(k), Len(Chars(substr)) + 1, Len(Chars(k))))

(***************************************************************************)
(* _traverse_dicts, _upgrade_use_bias, _upgrade_feature                    *)
(***************************************************************************)
\* one "if <old> in config" block of _upgrade_use_bias
\* fault: a new-name key already in the mapping is kept
RenameKey_KeepExisting(d, old, new) ==
    IF Has(d, old)
    THEN IF Has(d, new) THEN Del(d, old) ELSE Del(Put(d, new, Item(d, old)), old)
    ELSE d

RenameKey(d, old, new) ==
    IF Has(d, old) THEN Del(Put(d, new, Item(d, old)), old) ELSE d

UpgradeUseBias(d) ==
    RenameKey(RenameKey(RenameKey(d, "bias", "use_bias"),
                        "conv_bias", "conv_use_bias"),
              "default_bias", "default_use_bias")

\* the call f(config); rules are passed by name
ApplyRule(f, d) ==
    CASE f = "_upgrade_use_bias" -> UpgradeUseBias(d)
      [] OTHER -> d

\* fault: the "elif isinstance(config, list)" branch left out
RECURSIVE TraverseDicts_NoLists(_, _)
TraverseDicts_NoLists(cfg, f) ==
    IF IsDict(cfg)
    THEN ApplyRule(f, VMap([a \in DOMAIN cfg.v |-> TraverseDicts_NoLists(cfg.v[a], f)]))
    ELSE cfg

RECURSIVE TraverseDicts(_, _)
TraverseDicts(cfg, f) ==
    IF IsDict(cfg)
    THEN ApplyRule(f, VMap([a \in DOMAIN cfg.v |-> TraverseDicts(cfg.v[a], f)]))
    ELSE IF IsList(cfg)
    THEN VList([i \in 1..Len(cfg.v) |-> TraverseDicts(cfg.v[i], f)])
    ELSE cfg

\* fault: every feature with a type is rewritten, not only "numerical"
UpgradeFeatureType_AnyType(feature) ==
    IF Has(feature, TYPE) THEN Put(feature, TYPE, VStr(NUMBER)) ELSE feature

\* lines 80-82 of _upgrade_feature
UpgradeFeatureType(feature) ==
    IF Get(feature, TYPE, VNone) = VStr("numerical")
    THEN Put(feature, TYPE, VStr(NUMBER))
    ELSE feature

UpgradeFeature(feature) ==
    TraverseDicts(UpgradeFeatureType(feature), "_upgrade_use_bias")

(***************************************************************************)
(* _upgrade_hyperopt                                                       *)
(***************************************************************************)
\* fault: the "del hparams[k]" of line 98 left out
RECURSIVE RenameTrainingKeys_NoDelete(_, _)
RenameTrainingKeys_NoDelete(hparams, todo) ==
    IF todo = {} THEN hparams
    ELSE LET k == CHOOSE x \in todo : TRUE
             v == Item(hparams, k)
             substr == "training."
             next == IF StartsWith(k, substr)
                     THEN Put(hparams, TrainerKey(k, substr), v)
                     ELSE hparams
         IN RenameTrainingKeys_NoDelete(next, todo \ {k})

\* the loop over list(hparams.items()): todo is the part of the snapshot
\* still to be visited
RECURSIVE RenameTrainingKeys(_, _)
RenameTrainingKeys(hparams, todo) ==
    IF todo = {} THEN hparams
    ELSE LET k == CHOOSE x \in todo : TRUE
             v == Item(hparams, k)
             substr == "training."
             next == IF StartsWith(k, substr)
                     THEN Del(Put(hparams, TrainerKey(k, substr), v), k)
                     ELSE hparams
         IN RenameTrainingKeys(next, todo \ {k})

UpgradeHyperoptParameters(hyperopt) ==
    IF Has(hyperopt, PARAMETERS)
    THEN LET hparams == Item(hyperopt, PARAMETERS)
         IN Put(hyperopt, PARAMETERS, RenameTrainingKeys(hparams, Keys(hparams)))
    ELSE hyperopt

\* fault: "executor_type == RAY" for "executor_type != RAY" in line 104
UpgradeExecutorType_WrongTest(hpexecutor) ==
    IF Get(hpexecutor, TYPE, VNone) # VNone /\ Get(hpexecutor, TYPE, VNone) = VStr(RAY)
    THEN Put(hpexecutor, TYPE, VStr(RAY))
    ELSE hpexecutor

\* lines 103-110
UpgradeExecutorType(hpexecutor) ==
    LET executor_type == Get(hpexecutor, TYPE, VNone)
    IN IF executor_type # VNone /\ executor_type # VStr(RAY)
       THEN Put(hpexecutor, TYPE, VStr(RAY))
       ELSE hpexecutor

\* fault: the "del" of line 117 inside the "if" of line 115
PromoteExecutorSearchAlg_DeleteIfPromoted(hyperopt) ==
    LET hpexecutor == Item(hyperopt, EXECUTOR)
    IN IF Has(hpexecutor, SEARCH_ALG) /\ ~Has(hyperopt, SEARCH_ALG)
       THEN Put(Put(hyperopt, SEARCH_ALG, Item(hpexecutor, SEARCH_ALG)),
                EXECUTOR, Del(hpexecutor, SEARCH_ALG))
       ELSE hyperopt

\* lines 112-117
PromoteExecutorSearchAlg(hyperopt) ==
    LET hpexecutor == Item(hyperopt, EXECUTOR)
    IN IF Has(hpexecutor, SEARCH_ALG)
       THEN LET h == IF ~Has(hyperopt, SEARCH_ALG)
                     THEN Put(hyperopt, SEARCH_ALG, Item(hpexecutor, SEARCH_ALG))
                     ELSE hyperopt
            IN Put(h, EXECUTOR, Del(hpexecutor, SEARCH_ALG))
       ELSE hyperopt

\* fault: no executor created when the section has none (lines 118-122)
UpgradeHyperoptExecutor_NoDefault(hyperopt) ==
    IF Has(hyperopt, EXECUTOR)
    THEN PromoteExecutorSearchAlg(
             Put(hyperopt, EXECUTOR, UpgradeExecutorType(Item(hyperopt, EXECUTOR))))
    ELSE Put(hyperopt, EXECUTOR, EmptyDict)

\* lines 101-122
UpgradeHyperoptExecutor(hyperopt) ==
    IF Has(hyperopt, EXECUTOR)
    THEN PromoteExecutorSearchAlg(
             Put(hyperopt, EXECUTOR, UpgradeExecutorType(Item(hyperopt, EXECUTOR))))
    ELSE Put(hyperopt, EXECUTOR, Put(EmptyDict, TYPE, VStr(RAY)))

\* fault: "<key> in executor" for "<key> not in executor"
MoveToExecutor_WrongGuard(hyperopt, key) ==
    IF Has(Item(hyperopt, SAMPLER), key) /\ Has(Item(hyperopt, EXECUTOR), key)
    THEN Put(hyperopt, EXECUTOR,
             Put(Item(hyperopt, EXECUTOR), key, Item(Item(hyperopt, SAMPLER), key)))
    ELSE hyperopt

\* one "if <key> in sampler and <key> not in executor" block, lines 137-143
MoveToExecutor(hyperopt, key) ==
    IF Has(Item(hyperopt, SAMPLER), key) /\ ~Has(Item(hyperopt, EXECUTOR), key)
    THEN Put(hyperopt, EXECUTOR,
             Put(Item(hyperopt, EXECUTOR), key, Item(Item(hyperopt, SAMPLER), key)))
    ELSE hyperopt

\* fault: the "SEARCH_ALG not in hyperopt" test of line 132 left out
PromoteSamplerSearchAlg_Unguarded(hyperopt) ==
    IF Has(Item(hyperopt, SAMPLER), SEARCH_ALG)
    THEN Put(hyperopt, SEARCH_ALG, Item(Item(hyperopt, SAMPLER), SEARCH_ALG))
    ELSE hyperopt

\* lines 131-134
PromoteSamplerSearchAlg(hyperopt) ==
    IF Has(Item(hyperopt, SAMPLER), SEARCH_ALG) /\ ~Has(hyperopt, SEARCH_ALG)
    THEN Put(hyperopt, SEARCH_ALG, Item(Item(hyperopt, SAMPLER), SEARCH_ALG))
    ELSE hyperopt

\* lines 125-146
UpgradeHyperoptSampler(hyperopt) ==
    IF Has(hyperopt, SAMPLER)
    THEN Del(MoveToExecutor(MoveToExecutor(PromoteSamplerSearchAlg(hyperopt),
                                           "num_samples"),
                            SCHEDULER),
             SAMPLER)
    ELSE hyperopt

\* fault: "if SEARCH_ALG in hyperopt" for "not in" in line 148
DefaultSearchAlg_WrongTest(hyperopt) ==
    IF Has(hyperopt, SEARCH_ALG)
    THEN Put(hyperopt, SEARCH_ALG, Put(EmptyDict, TYPE, VStr("variant_generator")))
    ELSE hyperopt

\* lines 148-154
DefaultSearchAlg(hyperopt) ==
    IF ~Has(hyperopt, SEARCH_ALG)
    THEN Put(hyperopt, SEARCH_ALG, Put(EmptyDict, TYPE, VStr("variant_generator")))
    ELSE hyperopt

UpgradeHyperopt(hyperopt) ==
    DefaultSearchAlg(
        UpgradeHyperoptSampler(
            UpgradeHyperoptExecutor(
                UpgradeHyperoptParameters(hyperopt))))

(***************************************************************************)
(* _upgrade_trainer                                                        *)
(***************************************************************************)
\* fault: the section replaced by the rewritten key instead of updated
UpgradeTrainer_Replaced(trainer) ==
    LET eval_batch_size == Get(trainer, EVAL_BATCH_SIZE, VNone)
    IN IF EqualsZero(eval_batch_size)
       THEN Put(EmptyDict, EVAL_BATCH_SIZE, VNone)
       ELSE trainer

UpgradeTrainer(trainer) ==
    LET eval_batch_size == Get(trainer, EVAL_BATCH_SIZE, VNone)
    IN IF EqualsZero(eval_batch_size)
       THEN Put(trainer, EVAL_BATCH_SIZE, VNone)
       ELSE trainer

(***************************************************************************)
(* _upgrade_preprocessing_split                                            *)
(***************************************************************************)
\* fault: the value kept under its legacy name inside the split object
SplitProbabilities_LegacyKey(split_params, split_probabilities) ==
    IF split_probabilities # VNone
    THEN Put(split_params, "split_probabilities", split_probabilities)
    ELSE split_params

\* lines 219-220
SplitProbabilities(split_params, split_probabilities) ==
    IF split_probabilities # VNone
    THEN Put(split_params, PROBABILITIES, split_probabilities)
    ELSE split_params

\* fault: the assignment of split_params[TYPE] in line 228 left out
SplitStratify_NoType(split_params, stratify) ==
    IF stratify # VNone
    THEN Put(split_params, COLUMN, stratify)
    ELSE split_params

\* lines 227-229
SplitStratify(split_params, stratify) ==
    IF stratify # VNone
    THEN Put(Put(split_params, TYPE, VStr("stratify")), COLUMN, stratify)
    ELSE split_params

\* fault: the "if TYPE not in split_params" test of line 244 left out
SplitForceSplit_Unguarded(split_params, force_split) ==
    IF force_split # VNone
    THEN Put(split_params, TYPE,
             IF Truthy(force_split) THEN VStr("random") ELSE VStr("fixed"))
    ELSE split_params

\* lines 237-245
SplitForceSplit(split_params, force_split) ==
    IF force_split # VNone /\ ~Has(split_params, TYPE)
    THEN Put(split_params, TYPE,
             IF Truthy(force_split) THEN VStr("random") ELSE VStr("fixed"))
    ELSE split_params

\* lines 213-245: the object built from the three popped values
SplitParams(force_split, split_probabilities, stratify) ==
    SplitForceSplit(
        SplitStratify(
            SplitProbabilities(EmptyDict, split_probabilities),
            stratify),
        force_split)

\* fault: the "if split_params:" test of line 247 left out
UpgradePreprocessingSplit_Unguarded(preprocessing) ==
    Put(Del(Del(Del(preprocessing, "force_split"), "split_probabilities"), "stratify"),
        SPLIT,
        SplitParams(Get(preprocessing, "force_split", VNone),
                    Get(preprocessing, "split_probabilities", VNone),
                    Get(preprocessing, "stratify", VNone)))

\* fault: the built object merged into an existing split instead of
\* replacing it
UpgradePreprocessingSplit_Merge(preprocessing) ==
    LET popped == Del(Del(Del(preprocessing, "force_split"),
                          "split_probabilities"), "stratify")
        split_params == SplitParams(Get(preprocessing, "force_split", VNone),
                                    Get(preprocessing, "split_probabilities", VNone),
                                    Get(preprocessing, "stratify", VNone))
    IN IF Truthy(split_params)
       THEN Put(popped, SPLIT,
                IF Has(popped, SPLIT) /\ IsDict(Item(popped, SPLIT))
                THEN Update(Item(popped, SPLIT), split_params)
                ELSE split_params)
       ELSE popped

UpgradePreprocessingSplit(preprocessing) ==
    LET force_split == Get(preprocessing, "force_split", VNone)
        split_probabilities == Get(preprocessing, "split_probabilities", VNone)
        stratify == Get(preprocessing, "stratify", VNone)
        popped == Del(Del(Del(preprocessing, "force_split"),
                          "split_probabilities"), "stratify")
        split_params == SplitParams(force_split, split_probabilities, stratify)
    IN IF Truthy(split_params)
       THEN Put(popped, SPLIT, split_params)
       ELSE popped

(***************************************************************************)
(* merge_dict (ludwig.utils.misc_utils): recursive merge of merge_dct into *)
(* a copy of dct; on a leaf conflict the value already in dct is kept.      *)
(***************************************************************************)
RECURSIVE MergeDict(_, _)
MergeDict(dct, merge_dct) ==
    VMap([a \in Keys(dct) \cup Keys(merge_dct) |->
            IF a \in Keys(dct) /\ a \in Keys(merge_dct)
            THEN IF IsDict(dct.v[a]) /\ IsDict(merge_dct.v[a])
                 THEN MergeDict(dct.v[a], merge_dct.v[a])
                 ELSE dct.v[a]
            ELSE IF a \in Keys(dct) THEN dct.v[a] ELSE merge_dct.v[a]])

(***************************************************************************)
(* _upgrade_preprocessing_defaults.  A call ends normally (err = "none")   *)
(* or raises; the document is left as mutated up to the raise.             *)
(***************************************************************************)
Returned(cfg) == [config |-> cfg, err |-> "none"]
Raised(cfg, e) == [config |-> cfg, err |-> e]

\* the keys the loop of lines 177-184 pops
TypeSpecificKeys(cfg) ==
    {p \in Keys(Item(cfg, PREPROCESSING)) : p \in base_type_registry}

\* lines 171-184: type_specific_preprocessing_params
TypeSpecificParams(cfg) ==
    VMap([p \in TypeSpecificKeys(cfg) |-> Item(Item(cfg, PREPROCESSING), p)])

\* lines 177-184: the preprocessing section after the pops
PopTypeSpecific(cfg) ==
    LET pre == Item(cfg, PREPROCESSING)
    IN Put(cfg, PREPROCESSING,
           VMap([a \in Keys(pre) \ TypeSpecificKeys(cfg) |-> pre.v[a]]))

\* fault: the emptiness test of line 187 inverted
DeleteEmptyPreprocessing_WrongTest(cfg) ==
    IF Has(cfg, PREPROCESSING) /\ Truthy(Item(cfg, PREPROCESSING))
    THEN Del(cfg, PREPROCESSING)
    ELSE cfg

\* lines 187-188
DeleteEmptyPreprocessing(cfg) ==
    IF Has(cfg, PREPROCESSING) /\ ~Truthy(Item(cfg, PREPROCESSING))
    THEN Del(cfg, PREPROCESSING)
    ELSE cfg

\* lines 190-191
EnsureDefaults(cfg) ==
    IF ~Has(cfg, DEFAULTS) THEN Put(cfg, DEFAULTS, EmptyDict) ELSE cfg

\* fault: wrap every override block, already wrapped or not
NewDefault_AlwaysWrap(preprocessing_param) ==
    Put(EmptyDict, PREPROCESSING, preprocessing_param)

\* lines 197-200
NewDefault(preprocessing_param) ==
    IF Has(preprocessing_param, PREPROCESSING)
    THEN preprocessing_param
    ELSE Put(EmptyDict, PREPROCESSING, preprocessing_param)

\* fault: update with the incoming override itself, without merge_dict
MergedDefault_Overwrite(existing, preprocessing_param) ==
    Put(existing, PREPROCESSING,
        Update(Item(existing, PREPROCESSING), Item(preprocessing_param, PREPROCESSING)))

\* lines 206-208
MergedDefault(existing, preprocessing_param) ==
    Put(existing, PREPROCESSING,
        Update(Item(existing, PREPROCESSING),
               MergeDict(Item(existing, PREPROCESSING),
                         Item(preprocessing_param, PREPROCESSING))))

\* lines 196-208: one iteration of the loop over the popped overrides
MoveToDefaults(cfg, feature_type, preprocessing_param) ==
    LET defaults == Item(cfg, DEFAULTS)
        SetDefault(val) == Put(cfg, DEFAULTS, Put(defaults, feature_type, val))
    IN IF ~Has(defaults, feature_type)
       THEN Returned(SetDefault(NewDefault(preprocessing_param)))
       ELSE IF ~Has(Item(defaults, feature_type), PREPROCESSING)
       THEN IF Has(preprocessing_param, PREPROCESSING)
            THEN Returned(SetDefault(Put(Item(defaults, feature_type), PREPROCESSING,
                                         Item(preprocessing_param, PREPROCESSING))))
            ELSE Raised(cfg, "KeyError")
       ELSE IF Has(preprocessing_param, PREPROCESSING)
            THEN Returned(SetDefault(MergedDefault(Item(defaults, feature_type),
                                                   preprocessing_param)))
            ELSE Raised(cfg, "KeyError")

\* lines 194-208: order is the insertion order of the popped keys
RECURSIVE UpdateDefaults(_, _, _)
UpdateDefaults(cfg, params, order) ==
    IF order = <<>> THEN Returned(cfg)
    ELSE LET r == MoveToDefaults(cfg, Head(order), Item(params, Head(order)))
         IN IF r.err # "none" THEN r
            ELSE UpdateDefaults(r.config, params, Tail(order))

\* line 171: list(config.get(PREPROCESSING)) is list(None) when the document
\* has no preprocessing section
UpgradePreprocessingDefaults(cfg, order) ==
    IF ~Has(cfg, PREPROCESSING)
    THEN Raised(cfg, "TypeError")
    ELSE UpdateDefaults(EnsureDefaults(DeleteEmptyPreprocessing(PopTypeSpecific(cfg))),
                        TypeSpecificParams(cfg), order)

\* the orders in which a document can list a set of keys
Orders(S) ==
    {o \in [1..Cardinality(S) -> S] : \A i, j \in 1..Cardinality(S) : i # j => o[i] # o[j]}

(***************************************************************************)
(* A section that is not a mapping.  The migrators use their argument as a *)
(* dict without testing it; what Python raises depends on the first        *)
(* operation that the value does not support.  Nothing is written before   *)
(* the raise.                                                              *)
(***************************************************************************)
\* line 89: `PARAMETERS in hyperopt` raises TypeError on a number, a boolean
\* or None; a string or a list answers the `in` tests and then raises
\* TypeError at the first subscript with a string key (lines 90, 102, 122)
HyperoptRaises(hyperopt) ==
    IF IsDict(hyperopt) THEN "none" ELSE "TypeError"

\* line 160: no value but a dict has the attribute `get`
TrainerRaises(trainer) ==
    IF IsDict(trainer) THEN "none" ELSE "AttributeError"

\* fault: a list taken to fail like a scalar
SplitRaises_NoListCase(preprocessing) ==
    IF IsDict(preprocessing) THEN "none" ELSE "AttributeError"

\* line 215: scalars and strings have no attribute `pop`; list.pop takes
\* at most one argument
SplitRaises(preprocessing) ==
    IF IsDict(preprocessing) THEN "none"
    ELSE IF IsList(preprocessing) THEN "TypeError"
    ELSE "AttributeError"

(***************************************************************************)
(* upgrade_deprecated_fields, statement by statement                       *)
(***************************************************************************)
\* fault: the training section merged into an existing trainer section
RenameTrainingSection_Merge(cfg) ==
    IF Has(cfg, TRAINING)
    THEN IF IsDict(Get(cfg, TRAINER, VNone)) /\ IsDict(Item(cfg, TRAINING))
         THEN Del(Put(cfg, TRAINER, Update(Item(cfg, TRAINER), Item(cfg, TRAINING))),
                  TRAINING)
         ELSE Del(Put(cfg, TRAINER, Item(cfg, TRAINING)), TRAINING)
    ELSE cfg

\* lines 256-259
RenameTrainingSection(cfg) ==
    IF Has(cfg, TRAINING)
    THEN Del(Put(cfg, TRAINER, Item(cfg, TRAINING)), TRAINING)
    ELSE cfg

\* _upgrade_feature on every element of one of the two lists (lines 261-262)
UpgradeFeatureList(cfg, key) ==
    IF Has(cfg, key)
    THEN Put(cfg, key,
             VList([i \in 1..Len(Item(cfg, key).v) |-> UpgradeFeature(Item(cfg, key).v[i])]))
    ELSE cfg

\* fault: the bias keys renamed in every mapping of the document
UpgradeFeatures_WholeDocument(cfg) ==
    TraverseDicts(
        UpgradeFeatureList(UpgradeFeatureList(cfg, INPUT_FEATURES), OUTPUT_FEATURES),
        "_upgrade_use_bias")

UpgradeFeatures(cfg) ==
    UpgradeFeatureList(UpgradeFeatureList(cfg, INPUT_FEATURES), OUTPUT_FEATURES)

\* lines 264-265
\* fault: the "if HYPEROPT in config" test of line 264 left out
UpgradeHyperoptSection_Unguarded(cfg) ==
    Put(cfg, HYPEROPT,
        IF Has(cfg, HYPEROPT)
        THEN UpgradeHyperopt(Item(cfg, HYPEROPT))
        ELSE UpgradeHyperopt(EmptyDict))

UpgradeHyperoptSection(cfg) ==
    IF Has(cfg, HYPEROPT)
    THEN Put(cfg, HYPEROPT, UpgradeHyperopt(Item(cfg, HYPEROPT)))
    ELSE cfg

\* fault: the trainer migrator looks for the section under its legacy name
UpgradeTrainerSection_LegacyName(cfg) ==
    IF Has(cfg, TRAINING)
    THEN Put(cfg, TRAINING, UpgradeTrainer(Item(cfg, TRAINING)))
    ELSE cfg

\* lines 267-268
UpgradeTrainerSection(cfg) ==
    IF Has(cfg, TRAINER)
    THEN Put(cfg, TRAINER, UpgradeTrainer(Item(cfg, TRAINER)))
    ELSE cfg

\* line 271
UpgradeSplitSection(cfg) ==
    Put(cfg, PREPROCESSING, UpgradePreprocessingSplit(Item(cfg, PREPROCESSING)))

(***************************************************************************)
(* Input documents                                                         *)
(***************************************************************************)
\* nesting depth of a feature record below its top level
MaxDepth == 2
\* length of input_features and of output_features
MaxFeatures == 2

\* a mapping from a set of optional entries: opt is a function from keys to
\* sets of values, Absent standing for "key not present"
Absent == [k |-> "absent", v |-> 0]
Present(f) == VMap([a \in {b \in DOMAIN f : f[b] # Absent} |-> f[a]])
RECURSIVE DictsOf(_)
DictsOf(opt) ==
    IF DOMAIN opt = {} THEN {EmptyDict}
    ELSE LET a == CHOOSE x \in DOMAIN opt : TRUE
             rest == [b \in (DOMAIN opt) \ {a} |-> opt[b]]
         IN {IF val = Absent THEN d ELSE Put(d, a, val) :
                d \in DictsOf(rest), val \in opt[a]}

Dict1(k1, v1) == VMap(k1 :> v1)
Dict2(k1, v1, k2, v2) == VMap((k1 :> v1) @@ (k2 :> v2))
Dict3(k1, v1, k2, v2, k3, v3) == VMap((k1 :> v1) @@ (k2 :> v2) @@ (k3 :> v3))

\* the contents of one mapping of a feature record, without sub-mappings
Layouts ==
    { Dict1(TYPE, VStr("numerical")),
      Dict1("bias", VBool(TRUE)),
      VMap(("bias" :> VBool(FALSE)) @@ ("conv_bias" :> VBool(TRUE)) @@
           ("default_bias" :> VInt(1)) @@ ("num_fc_layers" :> VInt(2))),
      Dict2("bias", VBool(TRUE), "use_bias", VBool(FALSE)) }

\* mappings nested at most d levels deep, through a mapping or a sequence
RECURSIVE FeatureTrees(_)
FeatureTrees(d) ==
    IF d = 0 THEN Layouts
    ELSE Layouts
         \cup {Put(l, "encoder", c) : l \in Layouts, c \in FeatureTrees(d - 1)}
         \cup {Put(l, "fc_layers", VList(<<c, VInt(3)>>)) :
                  l \in Layouts, c \in FeatureTrees(d - 1)}

FeatureTypes == {Absent, VStr("numerical"), VStr("category")}

WithType(feature, t) ==
    IF t = Absent THEN Del(feature, TYPE) ELSE Put(feature, TYPE, t)

SmallFeatures ==
    { Dict2(TYPE, VStr("numerical"), "bias", VBool(TRUE)),
      Dict2(TYPE, VStr("category"), "encoder", Dict1("conv_bias", VBool(FALSE))) }

FeatureLists ==
    {Absent} \cup
    {VList(q) : q \in UNION {[1..n -> SmallFeatures] : n \in 0..MaxFeatures}}

FeatureDocs ==
    {Dict1(INPUT_FEATURES, VList(<<WithType(f, t)>>)) :
        f \in FeatureTrees(MaxDepth), t \in FeatureTypes}
    \cup DictsOf((INPUT_FEATURES :> FeatureLists) @@ (OUTPUT_FEATURES :> FeatureLists))

\* hyperopt.parameters: any set of keys, each holding its own name
ParameterDicts == {VMap([a \in K |-> VStr(a)]) : K \in SUBSET ParamKeys}

ExecutorDicts ==
    DictsOf((TYPE :> {Absent, VNone, VStr("ray"), VStr("serial")}) @@
            (SEARCH_ALG :> {Absent, Dict1(TYPE, VStr("hyperopt"))}) @@
            ("num_samples" :> {Absent, VInt(3)}) @@
            (SCHEDULER :> {Absent, Dict1(TYPE, VStr("fifo"))}))

SamplerDicts ==
    DictsOf((SEARCH_ALG :> {Absent, Dict1(TYPE, VStr("bohb"))}) @@
            ("num_samples" :> {Absent, VInt(5)}) @@
            (SCHEDULER :> {Absent, Dict1(TYPE, VStr("async_hyperband"))}))

HyperoptDicts ==
    DictsOf((EXECUTOR :> {Absent} \cup ExecutorDicts) @@
            (SAMPLER :> {Absent} \cup SamplerDicts) @@
            (SEARCH_ALG :> {Absent, Dict1(TYPE, VStr("random"))}))
    \cup
    DictsOf((PARAMETERS :> ParameterDicts) @@
            (EXECUTOR :> {Absent, Dict1(TYPE, VStr("serial")),
                          Dict2(TYPE, VStr("serial"), "max_concurrent_trials", VInt(4))}) @@
            (SAMPLER :> {Absent, Dict1("num_samples", VInt(5))}) @@
            ("goal" :> {VStr("minimize")}))

HyperoptDocs == {Dict1(HYPEROPT, h) : h \in HyperoptDicts}

BatchSizes ==
    {Absent, VInt(0), VInt(32), VBool(FALSE), VBool(TRUE), VStr("0"), VNone, VFloat(0)}

TrainerDocs ==
    DictsOf((TRAINING :> {Absent} \cup
                {Present((EVAL_BATCH_SIZE :> b) @@ ("learning_rate" :> VInt(1))) :
                    b \in BatchSizes}) @@
            (TRAINER :> {Absent} \cup
                {Present((EVAL_BATCH_SIZE :> b) @@ ("epochs" :> VInt(5))) :
                    b \in BatchSizes}))

Probabilities == VList(<<VInt(7), VInt(1), VInt(2)>>)

FlatOverride == Dict1("missing_value_strategy", VStr("fill"))
WrappedOverride ==
    Dict1(PREPROCESSING,
          Dict3("missing_value_strategy", VStr("fill"), "lowercase", VBool(TRUE),
                "nested", Dict2("a", VInt(1), "b", VInt(2))))
WrappedOverrideEncoder ==
    Dict2(PREPROCESSING, Dict1("lowercase", VBool(TRUE)),
          "encoder", Dict1(TYPE, VStr("dense")))

ExistingDefault ==
    Dict1(PREPROCESSING,
          Dict3("missing_value_strategy", VStr("drop"), "most_common", VInt(10),
                "nested", Dict2("a", VInt(9), "c", VInt(3))))
ExistingDefaultNoPreprocessing == Dict1("encoder", Dict1(TYPE, VStr("sparse")))

SplitSections ==
    DictsOf(("force_split" :> {Absent, VBool(TRUE), VBool(FALSE), VNone}) @@
            ("split_probabilities" :> {Absent, Probabilities, VNone}) @@
            ("stratify" :> {Absent, VStr("col"), VNone}) @@
            (SPLIT :> {Absent, Dict2(TYPE, VStr("fixed"), COLUMN, VStr("old"))}) @@
            ("sample_ratio" :> {Absent, VInt(1)}) @@
            ("category" :> {Absent, FlatOverride}))

OverrideSections ==
    DictsOf(("force_split" :> {Absent, VBool(TRUE)}) @@
            ("sample_ratio" :> {Absent, VInt(1)}) @@
            ("category" :> {Absent, FlatOverride, WrappedOverride, WrappedOverrideEncoder}) @@
            ("set" :> {Absent, FlatOverride, WrappedOverride}))

DefaultsSections ==
    {Absent, EmptyDict} \cup
    DictsOf(("category" :> {Absent, ExistingDefault, ExistingDefaultNoPreprocessing}) @@
            ("set" :> {Absent, ExistingDefault}) @@
            ("text" :> {Absent, ExistingDefault}))

PreprocessingDocs ==
    {Dict1(PREPROCESSING, p) : p \in SplitSections}
    \cup DictsOf((PREPROCESSING :> OverrideSections) @@ (DEFAULTS :> DefaultsSections))

\* every section at once, each present in a legacy shape or absent
MixedDocs ==
    DictsOf((TRAINING :> {Absent, Dict1(EVAL_BATCH_SIZE, VInt(0))}) @@
            (TRAINER :> {Absent, Dict2(EVAL_BATCH_SIZE, VInt(0), "bias", VBool(TRUE))}) @@
            (INPUT_FEATURES :> {Absent, VList(<<Dict2(TYPE, VStr("numerical"), "bias", VBool(TRUE))>>)}) @@
            (HYPEROPT :> {Absent, Dict1(SAMPLER, Dict1("num_samples", VInt(5)))}) @@
            (PREPROCESSING :> {Absent, Dict2("stratify", VStr("col"), "category", FlatOverride)}) @@
            (DEFAULTS :> {Absent, Dict1("text", ExistingDefault)}) @@
            ("model_type" :> {Absent, VStr("ecd")}))

\* sections that carry options no rewrite rule names
AnnotatedDocs ==
    DictsOf((TRAINER :> {Absent, Dict2(EVAL_BATCH_SIZE, VInt(0), "epochs", VInt(5))}) @@
            (HYPEROPT :> {Absent,
                          Dict3("goal", VStr("minimize"),
                                EXECUTOR, Dict2(TYPE, VStr("serial"),
                                                "max_concurrent_trials", VInt(4)),
                                SAMPLER, Dict1("num_samples", VInt(5)))}) @@
            (PREPROCESSING :> {Absent,
                               Dict3("sample_ratio", VInt(1), "force_split", VBool(TRUE),
                                     "category", WrappedOverride)}) @@
            ("model_type" :> {Absent, VStr("ecd")}) @@
            ("backend" :> {Absent, Dict1(TYPE, VStr("local"))}))

\* a scalar or a sequence where a section is expected
MalformedValues ==
    {VInt(5), VBool(TRUE), VNone, VStr("abc"), VList(<<>>), VList(<<VInt(1)>>)}

MalformedDocs ==
    {Dict1(key, x) : key \in {HYPEROPT, TRAINING, TRAINER, PREPROCESSING},
                     x \in MalformedValues}
    \cup {Dict2(TRAINING, Dict1("learning_rate", VInt(2)), TRAINER, x) :
             x \in MalformedValues}
    \cup {Dict2(key, x, "model_type", VStr("ecd")) :
             key \in {HYPEROPT, TRAINER, PREPROCESSING}, x \in MalformedValues}
    \cup {Dict2(TRAINER, x, PREPROCESSING, y) : x, y \in MalformedValues}

\* a mapping holding each legacy bias key next to its new-name counterpart
CollidingLayout ==
    VMap(("bias" :> VBool(TRUE)) @@ ("use_bias" :> VBool(FALSE)) @@
         ("conv_bias" :> VInt(1)) @@ ("conv_use_bias" :> VInt(2)) @@
         ("default_bias" :> VStr("old")) @@ ("default_use_bias" :> VNone))

\* the colliding mapping as a feature, inside a feature's encoder and inside
\* a list of a feature
CollisionDocs ==
    {Dict1(key, VList(<<f>>)) :
        key \in {INPUT_FEATURES, OUTPUT_FEATURES},
        f \in {CollidingLayout,
               Put(CollidingLayout, TYPE, VStr("numerical")),
               Dict2(TYPE, VStr("category"), "encoder", CollidingLayout),
               Dict2(TYPE, VStr("numerical"), "fc_layers",
                     VList(<<CollidingLayout, VInt(3)>>))}}

\* bias keys and the legacy type name outside the feature lists
BiasedSection == Dict2("bias", VBool(TRUE), "conv_bias", VInt(1))

ScopeDocs ==
    DictsOf((INPUT_FEATURES :>
               {Absent,
                VList(<<Dict3(TYPE, VStr("numerical"), "bias", VBool(TRUE),
                              "encoder", Dict2(TYPE, VStr("numerical"),
                                               "default_bias", VBool(FALSE)))>>)}) @@
            (TRAINER :> {Absent, BiasedSection}) @@
            (HYPEROPT :>
               {Absent,
                Dict2("default_bias", VInt(1),
                      "executor", Dict2(TYPE, VStr("ray"), "bias", VInt(2)))}) @@
            (PREPROCESSING :>
               {Absent,
                Dict2("bias", VInt(3),
                      "category", Dict1("conv_bias", VInt(4)))}) @@
            (DEFAULTS :>
               {Absent,
                Dict2("bias", VInt(5),
                      "text", Dict1("preprocessing", BiasedSection))}) @@
            ("combiner" :>
               {Absent,
                Dict3(TYPE, VStr("numerical"), "bias", VBool(TRUE),
                      "fc_layers", VList(<<BiasedSection>>))}))

Docs ==
    FeatureDocs \cup HyperoptDocs \cup TrainerDocs \cup PreprocessingDocs
    \cup MixedDocs \cup AnnotatedDocs \cup MalformedDocs
    \cup CollisionDocs \cup ScopeDocs

(***************************************************************************)
(* The state machine: two successive calls of upgrade_deprecated_fields on *)
(* one document.  config0 is the document as given, after1 the document    *)
(* left by the first call.                                                 *)
(***************************************************************************)
Init ==
    /\ config \in Docs
    /\ config0 = config
    /\ after1 = config
    /\ pc = "training"
    /\ pass = 1
    /\ err = "none"
    /\ stack = <<>>
    /\ visited = <<>>

RenameTraining ==
    /\ pc = "training"
    /\ config' = RenameTrainingSection(config)
    /\ pc' = "features"
    /\ UNCHANGED <<config0, after1, pass, err, stack, visited>>

FeaturesStep ==
    /\ pc = "features"
    /\ config' = UpgradeFeatures(config)
    /\ pc' = "hyperopt"
    /\ UNCHANGED <<config0, after1, pass, err, stack, visited>>

HyperoptStep ==
    /\ pc = "hyperopt"
    /\ LET e == IF Has(config, HYPEROPT)
                THEN HyperoptRaises(Item(config, HYPEROPT)) ELSE "none"
       IN IF e = "none"
          THEN config' = UpgradeHyperoptSection(config) /\ pc' = "trainer" /\ err' = err
          ELSE config' = config /\ pc' = "raised" /\ err' = e
    /\ UNCHANGED <<config0, after1, pass, stack, visited>>

TrainerStep ==
    /\ pc = "trainer"
    /\ LET e == IF Has(config, TRAINER)
                THEN TrainerRaises(Item(config, TRAINER)) ELSE "none"
       IN IF e = "none"
          THEN config' = UpgradeTrainerSection(config) /\ pc' = "split" /\ err' = err
          ELSE config' = config /\ pc' = "raised" /\ err' = e
    /\ UNCHANGED <<config0, after1, pass, stack, visited>>

SplitStep ==
    /\ pc = "split"
    /\ LET e == IF Has(config, PREPROCESSING)
                THEN SplitRaises(Item(config, PREPROCESSING)) ELSE "none"
       IN IF e = "none"
          THEN /\ IF Has(config, PREPROCESSING)
                  THEN config' = UpgradeSplitSection(config) /\ pc' = "defaults"
                  ELSE config' = config /\ pc' = "done"
               /\ err' = err
          ELSE config' = config /\ pc' = "raised" /\ err' = e
    /\ UNCHANGED <<config0, after1, pass, stack, visited>>

DefaultsStep ==
    /\ pc = "defaults"
    /\ \E order \in Orders(TypeSpecificKeys(config)) :
          LET r == UpgradePreprocessingDefaults(config, order)
          IN /\ config' = r.config
             /\ err' = r.err
             /\ pc' = IF r.err = "none" THEN "done" ELSE "raised"
    /\ UNCHANGED <<config0, after1, pass, stack, visited>>

SecondCall ==
    /\ pc = "done"
    /\ pass = 1
    /\ after1' = config
    /\ pass' = 2
    /\ pc' = "training"
    /\ UNCHANGED <<config, config0, err, stack, visited>>

Next ==
    \/ RenameTraining
    \/ FeaturesStep
    \/ HyperoptStep
    \/ TrainerStep
    \/ SplitStep
    \/ DefaultsStep
    \/ SecondCall

Spec == Init /\ [][Next]_vars

(***************************************************************************)
(* One section migrator on its own, called twice on one argument.  pc      *)
(* names the migrator, pass counts the calls that have ended, config is    *)
(* the argument (the section; the whole document for                       *)
(* _upgrade_preprocessing_defaults), after1 what the first call left.      *)
(***************************************************************************)
TrainerSections ==
    {Present((EVAL_BATCH_SIZE :> b) @@ ("epochs" :> VInt(5))) : b \in BatchSizes}

InitAlone ==
    /\ \/ pc = "_upgrade_hyperopt" /\ config \in HyperoptDicts
       \/ pc = "_upgrade_trainer" /\ config \in TrainerSections
       \/ pc = "_upgrade_preprocessing_split" /\ config \in SplitSections
       \/ pc = "_upgrade_preprocessing_defaults" /\ config \in PreprocessingDocs
    /\ config0 = config
    /\ after1 = config
    /\ pass = 0
    /\ err = "none"
    /\ stack = <<>>
    /\ visited = <<>>

\* the call returns: the argument is as the migrator left it
ReturnAlone(result) ==
    /\ pass < 2
    /\ err = "none"
    /\ config' = result
    /\ after1' = IF pass = 0 THEN result ELSE after1
    /\ pass' = pass + 1
    /\ UNCHANGED <<config0, pc, stack, visited>>

HyperoptAlone ==
    /\ pc = "_upgrade_hyperopt"
    /\ ReturnAlone(UpgradeHyperopt(config))
    /\ UNCHANGED err

TrainerAlone ==
    /\ pc = "_upgrade_trainer"
    /\ ReturnAlone(UpgradeTrainer(config))
    /\ UNCHANGED err

SplitAlone ==
    /\ pc = "_upgrade_preprocessing_split"
    /\ ReturnAlone(UpgradePreprocessingSplit(config))
    /\ UNCHANGED err

DefaultsAlone ==
    /\ pc = "_upgrade_preprocessing_defaults"
    /\ \E order \in IF Has(config, PREPROCESSING)
                    THEN Orders(TypeSpecificKeys(config)) ELSE {<<>>} :
          LET r == UpgradePreprocessingDefaults(config, order)
          IN ReturnAlone(r.config) /\ err' = r.err

NextAlone ==
    \/ HyperoptAlone
    \/ TrainerAlone
    \/ SplitAlone
    \/ DefaultsAlone

SpecAlone == InitAlone /\ [][NextAlone]_vars

(***************************************************************************)
(* Vocabulary of the properties                                            *)
(***************************************************************************)
\* the first call has returned normally; config is its result
Completed == pc = "done" /\ pass = 1
\* the second call has ended
Repeated == pass = 2 /\ pc \in {"done", "raised"}
\* _upgrade_preprocessing_split has just returned; SplitInput is the
\* section it was given (no earlier statement of the driver writes it)
AfterSplit == pc = "defaults"
SplitInput == Item(IF pass = 1 THEN config0 ELSE after1, PREPROCESSING)
SplitOutput == Item(config, PREPROCESSING)

HyperoptIn == Item(config0, HYPEROPT)
HyperoptOut == Item(config, HYPEROPT)

FeatureKeys == {INPUT_FEATURES, OUTPUT_FEATURES}
\* the positions of the feature records of a document
FeaturePositions(cfg) ==
    UNION {{<<key, i>> : i \in 1..Len(Item(cfg, key).v)} :
              key \in {a \in FeatureKeys : Has(cfg, a)}}
FeatureAt(cfg, pos) == Item(cfg, pos[1]).v[pos[2]]

\* paths (keys and sequence indices) to the mappings inside a value
RECURSIVE DictPaths(_)
DictPaths(x) ==
    IF IsDict(x)
    THEN {<<>>} \cup UNION {{<<VStr(a)>> \o q : q \in DictPaths(x.v[a])} : a \in DOMAIN x.v}
    ELSE IF IsList(x)
    THEN UNION {{<<VInt(i)>> \o q : q \in DictPaths(x.v[i])} : i \in 1..Len(x.v)}
    ELSE {}

RECURSIVE At(_, _)
At(x, path) == IF path = <<>> THEN x ELSE At(x.v[Head(path).v], Tail(path))

LegacyBiasKeys == {"bias", "conv_bias", "default_bias"}
NewBiasKey(old) ==
    CASE old = "bias" -> "use_bias"
      [] old = "conv_bias" -> "conv_use_bias"
      [] old = "default_bias" -> "default_use_bias"

\* the non-mapping values of a mapping, each with the path of keys to it
RECURSIVE Leaves(_)
Leaves(d) ==
    UNION {IF IsDict(d.v[a])
           THEN {<<(<<a>> \o l[1]), l[2]>> : l \in Leaves(d.v[a])}
           ELSE {<<(<<a>>), d.v[a]>>} : a \in DOMAIN d.v}

\* d defines path: the path, or a prefix of it, leads to a value of d that
\* is not a mapping, or the whole path leads to a value
RECURSIVE Defines(_, _)
Defines(d, path) ==
    /\ path # <<>>
    /\ Has(d, Head(path))
    /\ \/ Tail(path) = <<>>
       \/ ~IsDict(Item(d, Head(path)))
       \/ Defines(Item(d, Head(path)), Tail(path))

\* the preprocessing values of an override block, flat or wrapped
OverrideValues(block) ==
    IF Has(block, PREPROCESSING) THEN Item(block, PREPROCESSING) ELSE block

\* the override blocks and the defaults the first call was given
OverridesIn ==
    IF Has(config0, PREPROCESSING) /\ IsDict(Item(config0, PREPROCESSING))
    THEN TypeSpecificParams(config0) ELSE EmptyDict
DefaultsIn == Get(config0, DEFAULTS, EmptyDict)
DefaultsOut == Get(config, DEFAULTS, EmptyDict)

(***************************************************************************)
(* C1  Idempotence of the driver: when a first call of                     *)
(* upgrade_deprecated_fields has completed, a second call on its result    *)
(* completes too and leaves the document as the first call left it.        *)
(***************************************************************************)
C1_DriverIdempotent == Repeated => pc = "done" /\ config = after1

C1_Witness == Repeated /\ config = after1 /\ after1 # config0

(***************************************************************************)
(* C2  (as claimed) After the driver on a document with a hyperopt         *)
(* mapping, hyperopt has no sampler, has an executor whose type is "ray",  *)
(* and has a top-level search_alg, also when the executor had no type.     *)
(***************************************************************************)
C2_HyperoptShapeAsClaimed ==
    Completed /\ Has(config0, HYPEROPT) =>
        /\ ~Has(HyperoptOut, SAMPLER)
        /\ Has(HyperoptOut, EXECUTOR)
        /\ Get(Item(HyperoptOut, EXECUTOR), TYPE, VNone) = VStr(RAY)
        /\ Has(HyperoptOut, SEARCH_ALG)

(***************************************************************************)
(* C2  (amended) After the driver on a document with a hyperopt mapping,   *)
(* hyperopt has no sampler, has an executor and has a top-level            *)
(* search_alg; the executor's type is "ray" when the executor was absent   *)
(* or had a non-null type, and is left as it was (absent, or null) when    *)
(* the executor was present without a type or with a null type.            *)
(***************************************************************************)
C2_HyperoptShape ==
    Completed /\ Has(config0, HYPEROPT) =>
        /\ ~Has(HyperoptOut, SAMPLER)
        /\ Has(HyperoptOut, EXECUTOR)
        /\ Has(HyperoptOut, SEARCH_ALG)
        /\ IF Has(HyperoptIn, EXECUTOR)
              /\ Get(Item(HyperoptIn, EXECUTOR), TYPE, VNone) = VNone
           THEN /\ Has(Item(HyperoptOut, EXECUTOR), TYPE)
                     <=> Has(Item(HyperoptIn, EXECUTOR), TYPE)
                /\ Get(Item(HyperoptOut, EXECUTOR), TYPE, VNone) = VNone
           ELSE Get(Item(HyperoptOut, EXECUTOR), TYPE, VNone) = VStr(RAY)

C2_Witness ==
    /\ Completed
    /\ Has(config0, HYPEROPT)
    /\ Has(HyperoptIn, SAMPLER)
    /\ Has(HyperoptIn, EXECUTOR)
    /\ Get(Item(HyperoptIn, EXECUTOR), TYPE, VNone) = VStr("serial")
    /\ Item(Item(HyperoptOut, EXECUTOR), TYPE) = VStr(RAY)

(***************************************************************************)
(* C3  (as claimed) For every known feature type T with an override block  *)
(* under preprocessing[T], the migration completes and defaults[T] then    *)
(* exists and carries the override's preprocessing values together with    *)
(* what defaults[T] held before, whether defaults[T] pre-existed or not    *)
(* and whether the block is flat or wrapped.                               *)
(***************************************************************************)
C3_OverridesRelocatedAsClaimed ==
    pass = 1 /\ pc \in {"done", "raised"} =>
        \A T \in Keys(OverridesIn) :
            /\ pc = "done"
            /\ Has(DefaultsOut, T)
            /\ Has(Item(DefaultsOut, T), PREPROCESSING)
            /\ Keys(OverrideValues(Item(OverridesIn, T)))
                  \subseteq Keys(Item(Item(DefaultsOut, T), PREPROCESSING))
            /\ Has(DefaultsIn, T) =>
                  Keys(Item(DefaultsIn, T)) \subseteq Keys(Item(DefaultsOut, T))

C5_FeatureTypeRename ==
    Completed =>
        /\ FeaturePositions(config) = FeaturePositions(config0)
        /\ \A pos \in FeaturePositions(config0) :
              LET before == FeatureAt(config0, pos)
                  after == FeatureAt(config, pos)
              IN IF Get(before, TYPE, VNone) = VStr("numerical")
                 THEN Get(after, TYPE, VNone) = VStr("number")
                 ELSE /\ Has(after, TYPE) <=> Has(before, TYPE)
                      /\ Get(after, TYPE, VNone) = Get(before, TYPE, VNone)

C5_Witness ==
    /\ Completed
    /\ \E pos \in FeaturePositions(config0) :
          /\ Get(FeatureAt(config0, pos), TYPE, VNone) = VStr("numerical")
          /\ Get(FeatureAt(config, pos), TYPE, VNone) = VStr("number")
    /\ \E pos \in FeaturePositions(config0) :
          /\ Get(FeatureAt(config0, pos), TYPE, VNone) = VStr("category")
          /\ Get(FeatureAt(config, pos), TYPE, VNone) = VStr("category")

(***************************************************************************)
(* C6  In a feature record, every mapping at any depth (through mappings   *)
(* and sequences, the record itself included) that contains bias,          *)
(* conv_bias or default_bias ends without that key and with use_bias,      *)
(* conv_use_bias or default_use_bias holding the original value; the three *)
(* renames all apply when several of the keys are in one mapping.          *)
(***************************************************************************)
C6_BiasRenameAnyDepth ==
    Completed =>
        \A pos \in FeaturePositions(config0) :
            \A path \in DictPaths(FeatureAt(config0, pos)) :
                LET before == At(FeatureAt(config0, pos), path)
                    after == At(FeatureAt(config, pos), path)
                IN \A old \in LegacyBiasKeys \cap Keys(before) :
                      /\ ~Has(after, old)
                      /\ Has(after, NewBiasKey(old))
                      /\ Item(after, NewBiasKey(old)) = Item(before, old)

\* all three keys in one mapping, two levels down, below a sequence
C6_Witness ==
    /\ Completed
    /\ \E pos \in FeaturePositions(config0) :
          \E path \in DictPaths(FeatureAt(config0, pos)) :
              /\ Len(path) >= 3
              /\ \E i \in 1..Len(path) : path[i].k = "int"
              /\ LegacyBiasKeys \subseteq Keys(At(FeatureAt(config0, pos), path))
              /\ {NewBiasKey(old) : old \in LegacyBiasKeys}
                    \subseteq Keys(At(FeatureAt(config, pos), path))

(***************************************************************************)
(* C7  Hyperopt default injection: when hyperopt has neither executor,     *)
(* sampler nor search_alg (hyperopt = {} in particular), after migration   *)
(* executor = {type: "ray"} and search_alg = {type: "variant_generator"}.  *)
(***************************************************************************)
C7_HyperoptDefaults ==
    ( /\ Completed
      /\ Has(config0, HYPEROPT)
      /\ Keys(HyperoptIn) \cap {EXECUTOR, SAMPLER, SEARCH_ALG} = {} ) =>
        /\ Has(HyperoptOut, EXECUTOR)
        /\ Item(HyperoptOut, EXECUTOR) = Dict1(TYPE, VStr("ray"))
        /\ Has(HyperoptOut, SEARCH_ALG)
        /\ Item(HyperoptOut, SEARCH_ALG) = Dict1(TYPE, VStr("variant_generator"))

C7_Witness ==
    /\ Completed
    /\ Has(config0, HYPEROPT)
    /\ HyperoptIn = EmptyDict
    /\ HyperoptOut = Dict2(EXECUTOR, Dict1(TYPE, VStr("ray")),
                           SEARCH_ALG, Dict1(TYPE, VStr("variant_generator")))

(***************************************************************************)
(* C8  Sampler folding: when hyperopt has an executor with neither         *)
(* search_alg nor num_samples, no top-level search_alg, and a sampler with *)
(* search_alg S and num_samples N, then after migration sampler is absent, *)
(* search_alg = S and executor.num_samples = N.                            *)
(***************************************************************************)
C8_SamplerFolding ==
    ( /\ Completed
      /\ Has(config0, HYPEROPT)
      /\ Has(HyperoptIn, EXECUTOR)
      /\ Keys(Item(HyperoptIn, EXECUTOR)) \cap {SEARCH_ALG, "num_samples"} = {}
      /\ ~Has(HyperoptIn, SEARCH_ALG)
      /\ Has(HyperoptIn, SAMPLER)
      /\ {SEARCH_ALG, "num_samples"} \subseteq Keys(Item(HyperoptIn, SAMPLER)) ) =>
        /\ ~Has(HyperoptOut, SAMPLER)
        /\ Has(HyperoptOut, SEARCH_ALG)
        /\ Item(HyperoptOut, SEARCH_ALG) = Item(Item(HyperoptIn, SAMPLER), SEARCH_ALG)
        /\ Has(Item(HyperoptOut, EXECUTOR), "num_samples")
        /\ Item(Item(HyperoptOut, EXECUTOR), "num_samples")
              = Item(Item(HyperoptIn, SAMPLER), "num_samples")

C8_Witness ==
    /\ Completed
    /\ Has(config0, HYPEROPT)
    /\ HyperoptIn = Dict2(EXECUTOR, EmptyDict,
                          SAMPLER, Dict2(SEARCH_ALG, Dict1(TYPE, VStr("bohb")),
                                         "num_samples", VInt(5)))
    /\ HyperoptOut = Dict2(EXECUTOR, Dict1("num_samples", VInt(5)),
                           SEARCH_ALG, Dict1(TYPE, VStr("bohb")))

(***************************************************************************)
(* C9  (as claimed) After the split migrator, force_split,                 *)
(* split_probabilities and stratify are all absent; and when force_split   *)
(* was truthy with split_probabilities = P and no stratify, split is       *)
(* exactly {type: "random", probabilities: P}.                             *)
(***************************************************************************)
C9_SplitConsolidationAsClaimed ==
    AfterSplit =>
        /\ Keys(SplitOutput) \cap {"force_split", "split_probabilities", "stratify"} = {}
        /\ ( /\ Has(SplitInput, "force_split")
             /\ Truthy(Item(SplitInput, "force_split"))
             /\ Has(SplitInput, "split_probabilities")
             /\ ~Has(SplitInput, "stratify") ) =>
               /\ Has(SplitOutput, SPLIT)
               /\ Item(SplitOutput, SPLIT)
                     = Dict2(TYPE, VStr("random"),
                             PROBABILITIES, Item(SplitInput, "split_probabilities"))

(***************************************************************************)
(* C9  (amended) After the split migrator, force_split,                    *)
(* split_probabilities and stratify are all absent; and when force_split   *)
(* was truthy with split_probabilities = P and no stratify, split is       *)
(* exactly {type: "random", probabilities: P} if P is not null, and        *)
(* exactly {type: "random"} if P is null.                                  *)
(***************************************************************************)
C9_SplitConsolidation ==
    AfterSplit =>
        /\ Keys(SplitOutput) \cap {"force_split", "split_probabilities", "stratify"} = {}
        /\ ( /\ Has(SplitInput, "force_split")
             /\ Truthy(Item(SplitInput, "force_split"))
             /\ Has(SplitInput, "split_probabilities")
             /\ ~Has(SplitInput, "stratify") ) =>
               /\ Has(SplitOutput, SPLIT)
               /\ Item(SplitOutput, SPLIT)
                     = IF Item(SplitInput, "split_probabilities") # VNone
                       THEN Dict2(TYPE, VStr("random"),
                                  PROBABILITIES, Item(SplitInput, "split_probabilities"))
                       ELSE Dict1(TYPE, VStr("random"))

C9_Witness ==
    /\ AfterSplit
    /\ pass = 1
    /\ SplitInput = Dict2("force_split", VBool(TRUE), "split_probabilities", Probabilities)
    /\ SplitOutput = Dict1(SPLIT, Dict2(TYPE, VStr("random"), PROBABILITIES, Probabilities))

(***************************************************************************)
(* C10 (as claimed) Whenever stratify is present with column C, split.type *)
(* is "stratify" and split.column is C whatever force_split is;            *)
(* force_split determines split.type ("random" if truthy, "fixed"          *)
(* otherwise) only when stratify did not set it.                           *)
(***************************************************************************)
C10_StratifyPrecedenceAsClaimed ==
    AfterSplit =>
        /\ Has(SplitInput, "stratify") =>
              /\ Has(SplitOutput, SPLIT)
              /\ Get(Item(SplitOutput, SPLIT), TYPE, VNone) = VStr("stratify")
              /\ Get(Item(SplitOutput, SPLIT), COLUMN, Absent) = Item(SplitInput, "stratify")
        /\ ( /\ ~Has(SplitInput, "stratify")
             /\ Get(SplitInput, "force_split", VNone) # VNone ) =>
              /\ Has(SplitOutput, SPLIT)
              /\ Get(Item(SplitOutput, SPLIT), TYPE, VNone)
                    = IF Truthy(Item(SplitInput, "force_split"))
                      THEN VStr("random") ELSE VStr("fixed")

(***************************************************************************)
(* C10 (amended) Whenever stratify is present with a column C that is not  *)
(* null, split.type is "stratify" and split.column is C whatever           *)
(* force_split is; a force_split that is not null determines split.type    *)
(* ("random" if truthy, "fixed" otherwise) exactly when stratify is absent *)
(* or null.                                                                *)
(***************************************************************************)
C10_StratifyPrecedence ==
    AfterSplit =>
        /\ Get(SplitInput, "stratify", VNone) # VNone =>
              /\ Has(SplitOutput, SPLIT)
              /\ Get(Item(SplitOutput, SPLIT), TYPE, VNone) = VStr("stratify")
              /\ Get(Item(SplitOutput, SPLIT), COLUMN, Absent) = Item(SplitInput, "stratify")
        /\ ( /\ Get(SplitInput, "stratify", VNone) = VNone
             /\ Get(SplitInput, "force_split", VNone) # VNone ) =>
              /\ Has(SplitOutput, SPLIT)
              /\ Get(Item(SplitOutput, SPLIT), TYPE, VNone)
                    = IF Truthy(Item(SplitInput, "force_split"))
                      THEN VStr("random") ELSE VStr("fixed")
              /\ ~Has(Item(SplitOutput, SPLIT), COLUMN)

C10_Witness ==
    /\ AfterSplit
    /\ pass = 1
    /\ SplitInput = Dict2("stratify", VStr("col"), "force_split", VBool(FALSE))
    /\ SplitOutput = Dict1(SPLIT, Dict2(TYPE, VStr("stratify"), COLUMN, VStr("col")))

(***************************************************************************)
(* C11.  _upgrade_preprocessing_defaults, when it returns: every key T of  *)
(* the preprocessing section that names a known feature type is gone from  *)
(* the section; where defaults had no entry T before the call, defaults[T] *)
(* is the override block itself if the block has a `preprocessing` key and *)
(* {preprocessing: block} otherwise; every other key of the section is     *)
(* still in the section with the value it had.                             *)
(***************************************************************************)
C11_DefaultsRelocation ==
    [][(pc = "defaults" /\ pc' = "done") =>
        LET before == Item(config, PREPROCESSING)
            after == Get(config', PREPROCESSING, EmptyDict)
        IN /\ \A T \in Keys(before) \cap base_type_registry :
                 /\ ~Has(after, T)
                 /\ ~Has(Get(config, DEFAULTS, EmptyDict), T) =>
                       /\ Has(config', DEFAULTS)
                       /\ Has(Item(config', DEFAULTS), T)
                       /\ Item(Item(config', DEFAULTS), T)
                             = IF Has(Item(before, T), PREPROCESSING)
                               THEN Item(before, T)
                               ELSE Dict1(PREPROCESSING, Item(before, T))
           /\ \A key \in Keys(before) \ base_type_registry :
                 /\ Has(after, key)
                 /\ Item(after, key) = Item(before, key)]_vars

\* a wrapped and a flat override, neither with a defaults entry, moved next
\* to an option that stays
C11_Witness ==
    /\ Completed
    /\ Has(config0, PREPROCESSING)
    /\ Item(config0, PREPROCESSING)
          = Dict3("sample_ratio", VInt(1), "category", WrappedOverride, "set", FlatOverride)
    /\ ~Has(config0, DEFAULTS)
    /\ Item(config, PREPROCESSING) = Dict1("sample_ratio", VInt(1))
    /\ Item(config, DEFAULTS)
          = Dict2("category", WrappedOverride, "set", Dict1(PREPROCESSING, FlatOverride))

(***************************************************************************)
(* C12.  When the first call on a document with a `preprocessing` section  *)
(* has ended, the root has no `preprocessing` key exactly when nothing is  *)
(* left to keep in it: no option other than the three legacy split keys    *)
(* and the feature-type overrides, and no split object (one is written     *)
(* when a legacy split key holds a value other than null).  A section      *)
(* that is kept holds exactly the keys left to keep, so it is never empty. *)
(***************************************************************************)
LegacySplitKeys == {"force_split", "split_probabilities", "stratify"}

KeysToKeep(before) ==
    (Keys(before) \ (LegacySplitKeys \cup base_type_registry))
    \cup (IF \E key \in LegacySplitKeys : Get(before, key, VNone) # VNone
          THEN {SPLIT} ELSE {})

C12_EmptyPreprocessingDeleted ==
    ( /\ pass = 1
      /\ pc = "done" \/ (pc = "raised" /\ err = "KeyError")
      /\ Has(config0, PREPROCESSING) ) =>
        LET kept == KeysToKeep(Item(config0, PREPROCESSING))
        IN /\ Has(config, PREPROCESSING) <=> kept # {}
           /\ Has(config, PREPROCESSING) =>
                 Keys(Item(config, PREPROCESSING)) = kept

\* a section holding only an override and a null legacy key is deleted
C12_Witness ==
    /\ Completed
    /\ Has(config0, PREPROCESSING)
    /\ Item(config0, PREPROCESSING) = Dict2("stratify", VNone, "category", FlatOverride)
    /\ ~Has(config, PREPROCESSING)

(***************************************************************************)
(* C13, as the claim states it.  _upgrade_trainer on a trainer section: an *)
(* eval_batch_size of integer 0 is still present afterwards and is null;   *)
(* any other value (a non-zero number, a string, a boolean, null) is left  *)
(* as it was; a missing key is not added.  A float 0.0 is neither the      *)
(* integer 0 nor a non-zero number and is left out of the statement.       *)
(***************************************************************************)
C13_ZeroRewriteAsClaimed ==
    [][(pc = "trainer" /\ pc' = "split" /\ Has(config, TRAINER)) =>
        LET before == Item(config, TRAINER)
            after == Item(config', TRAINER)
        IN /\ Get(before, EVAL_BATCH_SIZE, Absent) = VInt(0) =>
                 /\ Has(after, EVAL_BATCH_SIZE)
                 /\ Item(after, EVAL_BATCH_SIZE) = VNone
           /\ (Has(before, EVAL_BATCH_SIZE)
                 /\ Item(before, EVAL_BATCH_SIZE) \notin {VInt(0), VFloat(0)}) =>
                 /\ Has(after, EVAL_BATCH_SIZE)
                 /\ Item(after, EVAL_BATCH_SIZE) = Item(before, EVAL_BATCH_SIZE)
           /\ ~Has(before, EVAL_BATCH_SIZE) => ~Has(after, EVAL_BATCH_SIZE)]_vars

(***************************************************************************)
(* C14.  When the first call on a document with a root `training` key has  *)
(* returned, the root has no `training` key and `trainer` has exactly the  *)
(* keys of the former `training` section, each with its former value (an   *)
(* eval_batch_size that compared equal to 0 has become null, by the        *)
(* trainer migrator that runs on the renamed section); nothing of a former *)
(* `trainer` section is left.                                              *)
(***************************************************************************)
C14_TrainingRenamed ==
    (Completed /\ Has(config0, TRAINING)) =>
        /\ ~Has(config, TRAINING)
        /\ Has(config, TRAINER)
        /\ LET training == Item(config0, TRAINING)
               trainer == Item(config, TRAINER)
           IN /\ Keys(trainer) = Keys(training)
              /\ \A key \in Keys(training) :
                    \/ Item(trainer, key) = Item(training, key)
                    \/ /\ key = EVAL_BATCH_SIZE
                       /\ Item(training, key) \in {VInt(0), VFloat(0), VBool(FALSE)}
                       /\ Item(trainer, key) = VNone

\* both sections given: the result is the training section alone
C14_Witness ==
    /\ Completed
    /\ Has(config0, TRAINING)
    /\ Has(config0, TRAINER)
    /\ Item(config0, TRAINING) = Dict2(EVAL_BATCH_SIZE, VInt(32), "learning_rate", VInt(1))
    /\ Has(Item(config0, TRAINER), "epochs")
    /\ Item(config, TRAINER) = Item(config0, TRAINING)

(***************************************************************************)
(* C19.  When the first call has returned on a document whose root         *)
(* `training` section has eval_batch_size integer 0 and that has no        *)
(* `trainer` section, `trainer.eval_batch_size` is present and null: the   *)
(* trainer migrator ran on the renamed section.                            *)
(***************************************************************************)
C19_TrainerSeesRenamedSection ==
    ( /\ Completed
      /\ Has(config0, TRAINING)
      /\ ~Has(config0, TRAINER)
      /\ Get(Item(config0, TRAINING), EVAL_BATCH_SIZE, Absent) = VInt(0) ) =>
        /\ Has(config, TRAINER)
        /\ Has(Item(config, TRAINER), EVAL_BATCH_SIZE)
        /\ Item(Item(config, TRAINER), EVAL_BATCH_SIZE) = VNone

C19_Witness ==
    /\ Completed
    /\ config0 = Dict1(TRAINING, Dict2(EVAL_BATCH_SIZE, VInt(0), "learning_rate", VInt(1)))
    /\ config = Dict1(TRAINER, Dict2(EVAL_BATCH_SIZE, VNone, "learning_rate", VInt(1)))

(***************************************************************************)
(* C15.  Keys no rewrite rule names are carried over by a call that        *)
(* returns: every root key other than the seven section names; every key   *)
(* of `hyperopt` other than parameters, executor, sampler and search_alg;  *)
(* every key of `hyperopt.executor` other than type, search_alg,           *)
(* num_samples and scheduler; every key other than eval_batch_size of the  *)
(* section the trainer migrator works on (`training` if given, else        *)
(* `trainer`); every key of `preprocessing` other than the legacy split    *)
(* keys, `split` and the known feature types.  And such keys never make    *)
(* the call fail: a call raises only when a section is not a mapping or    *)
(* for a flat override block of a type that already has a defaults entry.  *)
(***************************************************************************)
RootSections ==
    {TRAINING, TRAINER, INPUT_FEATURES, OUTPUT_FEATURES, HYPEROPT, PREPROCESSING, DEFAULTS}

\* every key of before outside named is in after with the same value
Carried(before, after, named) ==
    \A key \in Keys(before) \ named :
        Has(after, key) /\ Item(after, key) = Item(before, key)

TrainerIn == IF Has(config0, TRAINING) THEN TRAINING ELSE TRAINER

\* the root sections of a document that are not mappings
NonMappings(cfg) ==
    {key \in {HYPEROPT, TRAINING, TRAINER, PREPROCESSING} :
        Has(cfg, key) /\ ~IsDict(Item(cfg, key))}

C15_UnrecognizedKeysCarried ==
    /\ Completed =>
        /\ Carried(config0, config, RootSections)
        /\ Has(config0, HYPEROPT) =>
              /\ Has(config, HYPEROPT)
              /\ Carried(HyperoptIn, HyperoptOut, {PARAMETERS, EXECUTOR, SAMPLER, SEARCH_ALG})
              /\ Has(HyperoptIn, EXECUTOR) =>
                    /\ Has(HyperoptOut, EXECUTOR)
                    /\ Carried(Item(HyperoptIn, EXECUTOR), Item(HyperoptOut, EXECUTOR),
                               {TYPE, SEARCH_ALG, "num_samples", SCHEDULER})
        /\ Has(config0, TrainerIn) =>
              /\ Has(config, TRAINER)
              /\ Carried(Item(config0, TrainerIn), Item(config, TRAINER), {EVAL_BATCH_SIZE})
        /\ Has(config0, PREPROCESSING) =>
              Carried(Item(config0, PREPROCESSING), Get(config, PREPROCESSING, EmptyDict),
                      LegacySplitKeys \cup {SPLIT} \cup base_type_registry)
    /\ (pass = 1 /\ pc = "raised") =>
          \/ NonMappings(config0) # {}
          \/ \E T \in Keys(OverridesIn) :
              ~Has(Item(OverridesIn, T), PREPROCESSING) /\ Has(DefaultsIn, T)

\* an unrecognized key at the root and in each migrated section
C15_Witness ==
    /\ Completed
    /\ Keys(config0) = {TRAINER, HYPEROPT, PREPROCESSING, "model_type", "backend"}
    /\ Keys(config) = {TRAINER, HYPEROPT, PREPROCESSING, DEFAULTS, "model_type", "backend"}
    /\ Item(config, "backend") = Dict1(TYPE, VStr("local"))
    /\ Item(config, TRAINER) = Dict2(EVAL_BATCH_SIZE, VNone, "epochs", VInt(5))
    /\ Item(HyperoptOut, "goal") = VStr("minimize")
    /\ Item(Item(HyperoptOut, EXECUTOR), "max_concurrent_trials") = VInt(4)
    /\ Item(Item(HyperoptOut, EXECUTOR), "num_samples") = VInt(5)
    /\ Item(Item(config, PREPROCESSING), "sample_ratio") = VInt(1)

(***************************************************************************)
(* C18, as the claim states it.  When a root section that a migrator       *)
(* expects to be a mapping is a scalar or a sequence, the call ends by     *)
(* raising MalformedConfigError.                                           *)
(***************************************************************************)
C18_MalformedConfigErrorAsClaimed ==
    (pass = 1 /\ pc \in {"done", "raised"} /\ NonMappings(config0) # {}) =>
        pc = "raised" /\ err = "MalformedConfigError"

(***************************************************************************)
(* C18, amended.  When a section handed to a migrator is a scalar or a     *)
(* sequence, the call ends by raising one of Python's own errors, never by *)
(* returning: TypeError for `hyperopt`; otherwise AttributeError for the   *)
(* trainer section (`training` if given, else `trainer`); otherwise, for   *)
(* `preprocessing`, TypeError if it is a sequence and AttributeError if it *)
(* is a scalar.                                                            *)
(***************************************************************************)
C18_MalformedRaisesBuiltinError ==
    (pass = 1 /\ pc \in {"done", "raised"}) =>
        LET handed == NonMappings(config0) \cap {HYPEROPT, TrainerIn, PREPROCESSING}
        IN /\ HYPEROPT \in handed => pc = "raised" /\ err = "TypeError"
           /\ (HYPEROPT \notin handed /\ TrainerIn \in handed) =>
                 pc = "raised" /\ err = "AttributeError"
           /\ handed = {PREPROCESSING} =>
                 /\ pc = "raised"
                 /\ err = IF IsList(Item(config0, PREPROCESSING))
                          THEN "TypeError" ELSE "AttributeError"

\* a preprocessing section that is a list: list.pop rejects the default
C18_Witness ==
    /\ pc = "raised"
    /\ err = "TypeError"
    /\ config0 = Dict1(PREPROCESSING, VList(<<VInt(1)>>))
    /\ config = config0

(***************************************************************************)
(* C16, as the claim states it.  Each of _upgrade_hyperopt,                *)
(* _upgrade_trainer, _upgrade_preprocessing_split and                      *)
(* _upgrade_preprocessing_defaults, called again on what its first call    *)
(* left, returns and leaves it unchanged.                                  *)
(***************************************************************************)
C16_MigratorsIdempotentAsClaimed ==
    pass = 2 => err = "none" /\ config = after1

(***************************************************************************)
(* _traverse_dicts, call by call.  A frame of the stack is one call: the   *)
(* path from the start node to its argument and the children its loop has  *)
(* still to pass to a recursive call.  The rule is _upgrade_use_bias.      *)
(***************************************************************************)
\* fault: the "elif isinstance(config, list)" branch left out
Children_NoLists(x) ==
    IF IsDict(x) THEN {VStr(a) : a \in DOMAIN x.v} ELSE {}

\* lines 51 and 54: what the loops iterate over
Children(x) ==
    IF IsDict(x) THEN {VStr(a) : a \in DOMAIN x.v}
    ELSE IF IsList(x) THEN {VInt(i) : i \in 1..Len(x.v)}
    ELSE {}

\* the children the loop can take next: a list goes by index; a dict goes
\* by insertion order, which a document does not fix
NextChildren(x, todo) ==
    IF IsList(x) THEN {c \in todo : \A d \in todo : c.v <= d.v} ELSE todo

\* fault: the loop does not advance
Advance_Stuck(frame, c) == frame

\* the loop moves past child c
Advance(frame, c) == [frame EXCEPT !.todo = @ \ {c}]

Frame(path, node) == [path |-> path, todo |-> Children(node)]

\* the in-place update of the value at a path
RECURSIVE SetAt(_, _, _)
SetAt(x, path, val) ==
    IF path = <<>> THEN val
    ELSE [x EXCEPT !.v[Head(path).v] = SetAt(@, Tail(path), val)]

Top == stack[Len(stack)]
Node == At(config, Top.path)
Pop(s) == SubSeq(s, 1, Len(s) - 1)

\* the contents of one mapping of a tree to walk, without sub-mappings
WalkLayouts ==
    { Dict1("bias", VBool(TRUE)),
      Dict2("conv_bias", VBool(FALSE), "dropout", VInt(0)) }

\* a mapping with a child below it: under a key, inside a sequence, inside a
\* sequence of sequences, or next to a sibling mapping
RECURSIVE WalkTrees(_)
WalkTrees(d) ==
    IF d = 0 THEN WalkLayouts
    ELSE LET l == Dict1("default_bias", VInt(1))
         IN WalkTrees(d - 1) \cup
            UNION {{Put(l, "encoder", c),
                    Put(l, "fc_layers", VList(<<c, VInt(3)>>)),
                    Put(l, "stacked", VList(<<VList(<<c>>), VList(<<>>)>>)),
                    Put(Put(l, "encoder", c), "decoder", Dict1("bias", VBool(FALSE)))} :
                   c \in WalkTrees(d - 1)}

\* the start node: a mapping, a sequence or a scalar
StartNodes ==
    WalkTrees(MaxDepth)
    \cup {VList(<<t, Dict1("bias", VInt(1))>>) : t \in WalkTrees(MaxDepth - 1)}
    \cup {VInt(3), VStr("abc"), VList(<<>>), EmptyDict}

InitWalk ==
    /\ config \in StartNodes
    /\ config0 = config
    /\ after1 = config
    /\ pc = "_traverse_dicts"
    /\ pass = 1
    /\ err = "none"
    /\ stack = <<Frame(<<>>, config)>>
    /\ visited = <<>>

\* lines 52 and 55: the recursive call on the next child
Enter ==
    /\ pc = "_traverse_dicts"
    /\ stack # <<>>
    /\ \E c \in NextChildren(Node, Top.todo) :
          stack' = Append([stack EXCEPT ![Len(stack)] = Advance(@, c)],
                          Frame(Top.path \o <<c>>, At(Node, <<c>>)))
    /\ UNCHANGED <<config, config0, after1, pc, pass, err, visited>>

\* line 53: f(config) once the loop over the values has ended; the call returns
ApplyToDict ==
    /\ pc = "_traverse_dicts"
    /\ stack # <<>>
    /\ IsDict(Node)
    /\ Top.todo = {}
    /\ config' = SetAt(config, Top.path, ApplyRule("_upgrade_use_bias", Node))
    /\ visited' = Append(visited, Top.path)
    /\ stack' = Pop(stack)
    /\ UNCHANGED <<config0, after1, pc, pass, err>>

\* lines 54-56: the loop over a list has ended; the call returns
LeaveList ==
    /\ pc = "_traverse_dicts"
    /\ stack # <<>>
    /\ IsList(Node)
    /\ Top.todo = {}
    /\ stack' = Pop(stack)
    /\ UNCHANGED <<config, config0, after1, pc, pass, err, visited>>

\* neither branch applies; the call returns
LeaveScalar ==
    /\ pc = "_traverse_dicts"
    /\ stack # <<>>
    /\ ~IsDict(Node)
    /\ ~IsList(Node)
    /\ stack' = Pop(stack)
    /\ UNCHANGED <<config, config0, after1, pc, pass, err, visited>>

NextWalk ==
    \/ Enter
    \/ ApplyToDict
    \/ LeaveList
    \/ LeaveScalar

SpecWalk == InitWalk /\ [][NextWalk]_vars

\* the outermost call of _traverse_dicts has returned
Walked == pc = "_traverse_dicts" /\ stack = <<>>

\* the walk, call by call, leaves what TraverseDicts computes
WalkAgreesWithTraverseDicts ==
    Walked => config = TraverseDicts(config0, "_upgrade_use_bias")

(***************************************************************************)
(* upgrade_deprecated_fields and _traverse_dicts under the scheduling of a *)
(* single thread that runs to the end: a statement that can run does run.  *)
(***************************************************************************)
\* documents for the driver: every section, and the sections that are not
\* mappings
FairDocs == MixedDocs \cup AnnotatedDocs \cup TrainerDocs \cup MalformedDocs

InitAll == (Init /\ config \in FairDocs) \/ InitWalk

NextAll == Next \/ NextWalk

FairSpec == InitAll /\ [][NextAll]_vars /\ WF_vars(NextAll)

\* the two calls of the driver, or the walk, have ended
Finished == Walked \/ pc = "raised" \/ (pc = "done" /\ pass = 2)

\* p is a path to a value above the value at q
IsAbove(p, q) == Len(p) < Len(q) /\ SubSeq(q, 1, Len(p)) = p

\* levels of nesting of a value, a scalar or an empty container being one
RECURSIVE Depth(_)
Depth(x) ==
    LET below == {Depth(At(x, <<c>>)) : c \in Children(x)}
    IN 1 + IF below = {} THEN 0 ELSE CHOOSE n \in below : \A m \in below : m <= n

(***************************************************************************)
(* C17.  The calls of upgrade_deprecated_fields and the walk of            *)
(* _traverse_dicts eventually end; at every moment of a walk the rule has  *)
(* been applied at most as many times as the start node contains mappings, *)
(* and the calls in progress are at most as many as the node has levels.   *)
(***************************************************************************)
C17_Termination ==
    /\ [](/\ Len(visited) <= Cardinality(DictPaths(config0))
          /\ Len(stack) <= Depth(config0))
    /\ <>Finished

\* a walk over at least five levels of nesting has ended: one rule
\* application per mapping
C17_Witness ==
    /\ Walked
    /\ Depth(config0) >= 5
    /\ Len(visited) = Cardinality(DictPaths(config0))
    /\ Len(visited) >= 3

(***************************************************************************)
(* C20.  In a walk of _traverse_dicts the rule is applied only to          *)
(* mappings, to none twice, and to a mapping only after every mapping      *)
(* nested below it; when the walk has ended it has been applied to every   *)
(* mapping reachable from the start node through mappings and sequences,   *)
(* and last of all to the start node if that is a mapping.                 *)
(***************************************************************************)
C20_PostOrderVisits ==
    pc = "_traverse_dicts" =>
        /\ \A i \in 1..Len(visited) :
              /\ visited[i] \in DictPaths(config0)
              /\ \A j \in 1..Len(visited) : visited[i] = visited[j] => i = j
              /\ \A q \in DictPaths(config0) :
                    IsAbove(visited[i], q) =>
                       \E j \in 1..(i - 1) : visited[j] = q
        /\ Walked =>
              /\ {visited[i] : i \in 1..Len(visited)} = DictPaths(config0)
              /\ IsDict(config0) => visited[Len(visited)] = <<>>

\* mappings inside a sequence and sibling mappings, all visited, each after
\* the mappings below it
C20_Witness ==
    /\ Walked
    /\ config0 = VList(<<Put(Put(Dict1("default_bias", VInt(1)),
                                 "encoder", Dict1("bias", VBool(TRUE))),
                             "decoder", Dict1("bias", VBool(FALSE))),
                         Dict1("bias", VInt(1))>>)
    /\ Len(visited) = 4
    /\ visited[3] = <<VInt(1)>>
    /\ visited[4] = <<VInt(2)>>

(***************************************************************************)
(* The keys of hyperopt.parameters that start with "training.", and the    *)
(* name each of them is given.                                             *)
(***************************************************************************)
LegacyParamKeys == {"training.lr", "training.training.lr"}

RenamedParam(k) ==
    CASE k = "training.lr" -> "trainer.lr"
      [] k = "training.training.lr" -> "trainer.training.lr"

ParametersIn == Item(HyperoptIn, PARAMETERS)
ParametersOut == Item(HyperoptOut, PARAMETERS)
HasParameters ==
    Completed /\ Has(config0, HYPEROPT) /\ Has(HyperoptIn, PARAMETERS)

(***************************************************************************)
(* C21, as the claim states it.  After a completed call every key k of     *)
(* hyperopt.parameters that started with "training." is absent and the key *)
(* with "trainer." in place of that prefix holds k's value; every other    *)
(* key has kept its name and its value; no key has been added.             *)
(***************************************************************************)
C21_ParameterRenameAsClaimed ==
    HasParameters =>
        /\ \A k \in Keys(ParametersIn) \cap LegacyParamKeys :
              /\ ~Has(ParametersOut, k)
              /\ Has(ParametersOut, RenamedParam(k))
              /\ Item(ParametersOut, RenamedParam(k)) = Item(ParametersIn, k)
        /\ \A k \in Keys(ParametersIn) \ LegacyParamKeys :
              /\ Has(ParametersOut, k)
              /\ Item(ParametersOut, k) = Item(ParametersIn, k)

(***************************************************************************)
(* C21, amended.  As above, except that a key not starting with            *)
(* "training." keeps its value only if no renamed key takes its name; the  *)
(* keys afterwards are exactly the renamed keys and the keys that did not  *)
(* start with the prefix.                                                  *)
(***************************************************************************)
C21_ParameterRename ==
    HasParameters =>
        LET legacy == Keys(ParametersIn) \cap LegacyParamKeys
            renamed == {RenamedParam(k) : k \in legacy}
        IN /\ \A k \in legacy :
                 /\ ~Has(ParametersOut, k)
                 /\ Has(ParametersOut, RenamedParam(k))
                 /\ Item(ParametersOut, RenamedParam(k)) = Item(ParametersIn, k)
           /\ \A k \in (Keys(ParametersIn) \ LegacyParamKeys) \ renamed :
                 /\ Has(ParametersOut, k)
                 /\ Item(ParametersOut, k) = Item(ParametersIn, k)
           /\ Keys(ParametersOut) = (Keys(ParametersIn) \ legacy) \cup renamed

\* every key of the universe at once: two renames, each onto a key that
\* was already there
C21_Witness ==
    /\ HasParameters
    /\ Keys(ParametersIn) = ParamKeys
    /\ Keys(ParametersOut) = ParamKeys \ LegacyParamKeys
    /\ Item(ParametersOut, "trainer.lr") = VStr("training.lr")
    /\ Item(ParametersOut, "training") = VStr("training")
    /\ Item(ParametersOut, "combiner.training.lr") = VStr("combiner.training.lr")

\* a completed call on a document with a hyperopt section
HasHyperopt == Completed /\ Has(config0, HYPEROPT)
ExecutorIn == Item(HyperoptIn, EXECUTOR)
ExecutorOut == Item(HyperoptOut, EXECUTOR)
SamplerIn == Item(HyperoptIn, SAMPLER)

(***************************************************************************)
(* C22.  When hyperopt.executor had a search_alg key, it has none after    *)
(* the call; the top-level search_alg is then the one it was if there was  *)
(* one, and the executor's value if there was none.                        *)
(***************************************************************************)
C22_ExecutorSearchAlgRemoved ==
    ( /\ HasHyperopt
      /\ Has(HyperoptIn, EXECUTOR)
      /\ Has(ExecutorIn, SEARCH_ALG) ) =>
        /\ ~Has(ExecutorOut, SEARCH_ALG)
        /\ Has(HyperoptOut, SEARCH_ALG)
        /\ Item(HyperoptOut, SEARCH_ALG)
              = IF Has(HyperoptIn, SEARCH_ALG)
                THEN Item(HyperoptIn, SEARCH_ALG)
                ELSE Item(ExecutorIn, SEARCH_ALG)

\* not promoted, and removed all the same
C22_Witness ==
    /\ HasHyperopt
    /\ HyperoptIn = Dict2(EXECUTOR, Dict2(TYPE, VStr("ray"),
                                          SEARCH_ALG, Dict1(TYPE, VStr("hyperopt"))),
                          SEARCH_ALG, Dict1(TYPE, VStr("random")))
    /\ HyperoptOut = Dict2(EXECUTOR, Dict1(TYPE, VStr("ray")),
                           SEARCH_ALG, Dict1(TYPE, VStr("random")))

(***************************************************************************)
(* C23.  After a completed call the top-level hyperopt.search_alg is the   *)
(* first of these that existed before the call: the top-level search_alg,  *)
(* executor.search_alg, sampler.search_alg; and {type: variant_generator}  *)
(* if none of them existed.                                                *)
(***************************************************************************)
C23_SearchAlgPrecedence ==
    HasHyperopt =>
        /\ Has(HyperoptOut, SEARCH_ALG)
        /\ Item(HyperoptOut, SEARCH_ALG)
              = IF Has(HyperoptIn, SEARCH_ALG)
                THEN Item(HyperoptIn, SEARCH_ALG)
                ELSE IF Has(HyperoptIn, EXECUTOR) /\ Has(ExecutorIn, SEARCH_ALG)
                THEN Item(ExecutorIn, SEARCH_ALG)
                ELSE IF Has(HyperoptIn, SAMPLER) /\ Has(SamplerIn, SEARCH_ALG)
                THEN Item(SamplerIn, SEARCH_ALG)
                ELSE Dict1(TYPE, VStr("variant_generator"))

\* executor and sampler both bring one: the executor's is taken
C23_Witness ==
    /\ HasHyperopt
    /\ ~Has(HyperoptIn, SEARCH_ALG)
    /\ Has(HyperoptIn, EXECUTOR) /\ Has(HyperoptIn, SAMPLER)
    /\ Has(ExecutorIn, SEARCH_ALG)
    /\ Has(SamplerIn, SEARCH_ALG)
    /\ Item(ExecutorIn, SEARCH_ALG) # Item(SamplerIn, SEARCH_ALG)
    /\ Item(HyperoptOut, SEARCH_ALG) = Dict1(TYPE, VStr("hyperopt"))

(***************************************************************************)
(* C24.  After a completed call on a hyperopt section with a sampler, for  *)
(* num_samples and for scheduler: the executor holds the value it had if   *)
(* it had one, the sampler's value if only the sampler had one, and no     *)
(* such key if neither had.  When there was no executor and the sampler    *)
(* had num_samples N and no scheduler, the executor is exactly             *)
(* {type: "ray", num_samples: N}.                                          *)
(***************************************************************************)
C24_SamplerFoldedIntoExecutor ==
    (HasHyperopt /\ Has(HyperoptIn, SAMPLER)) =>
        LET had == IF Has(HyperoptIn, EXECUTOR) THEN ExecutorIn ELSE EmptyDict
        IN /\ \A key \in {"num_samples", SCHEDULER} :
                 IF Has(had, key)
                 THEN Has(ExecutorOut, key) /\ Item(ExecutorOut, key) = Item(had, key)
                 ELSE IF Has(SamplerIn, key)
                 THEN Has(ExecutorOut, key) /\ Item(ExecutorOut, key) = Item(SamplerIn, key)
                 ELSE ~Has(ExecutorOut, key)
           /\ ( /\ ~Has(HyperoptIn, EXECUTOR)
                /\ Has(SamplerIn, "num_samples")
                /\ ~Has(SamplerIn, SCHEDULER) ) =>
                 ExecutorOut = Dict2(TYPE, VStr(RAY),
                                     "num_samples", Item(SamplerIn, "num_samples"))

\* no executor, a sampler with num_samples alone
C24_Witness ==
    /\ HasHyperopt
    /\ HyperoptIn = Dict1(SAMPLER, Dict1("num_samples", VInt(5)))
    /\ ExecutorOut = Dict2(TYPE, VStr(RAY), "num_samples", VInt(5))
    /\ ~Has(HyperoptOut, SAMPLER)

(***************************************************************************)
(* C25, as the claim states it.  After _upgrade_preprocessing_split the    *)
(* section has a newly built split object exactly when one of the three    *)
(* legacy keys was present; the object has `probabilities` exactly when    *)
(* split_probabilities was present, whatever its value, `column` exactly   *)
(* when stratify was present and `type` exactly when stratify or           *)
(* force_split was present; with no legacy key present the section is      *)
(* unchanged.                                                              *)
(***************************************************************************)
C25_SplitShapeAsClaimed ==
    AfterSplit =>
        LET present == Keys(SplitInput) \cap LegacySplitKeys
        IN IF present = {}
           THEN SplitOutput = SplitInput
           ELSE /\ Has(SplitOutput, SPLIT)
                /\ LET split == Item(SplitOutput, SPLIT)
                   IN /\ Has(split, PROBABILITIES) <=> "split_probabilities" \in present
                      /\ Has(split, COLUMN) <=> "stratify" \in present
                      /\ Has(split, TYPE) <=>
                            ("stratify" \in present \/ "force_split" \in present)

(***************************************************************************)
(* C25, amended.  The same with "present with a value other than null" in  *)
(* place of "present": the split object is built from the legacy keys that *)
(* hold a value other than null, it is written exactly when there is such  *)
(* a key, and has these fields and no other.  With no such key the section *)
(* is as it was, less the legacy keys.                                     *)
(***************************************************************************)
C25_SplitShape ==
    AfterSplit =>
        LET given == {key \in LegacySplitKeys : Get(SplitInput, key, VNone) # VNone}
            rest == VMap([a \in Keys(SplitInput) \ LegacySplitKeys |->
                             Item(SplitInput, a)])
        IN IF given = {}
           THEN SplitOutput = rest
           ELSE /\ Has(SplitOutput, SPLIT)
                /\ LET split == Item(SplitOutput, SPLIT)
                   IN /\ Has(split, PROBABILITIES) <=> "split_probabilities" \in given
                      /\ Has(split, COLUMN) <=> "stratify" \in given
                      /\ Has(split, TYPE) <=>
                            ("stratify" \in given \/ "force_split" \in given)
                      /\ Keys(split) \subseteq {PROBABILITIES, COLUMN, TYPE}

\* probabilities alone: an object with one field and no type
C25_Witness ==
    /\ AfterSplit
    /\ pass = 1
    /\ SplitInput = Dict2("split_probabilities", Probabilities, "stratify", VNone)
    /\ SplitOutput = Dict1(SPLIT, Dict1(PROBABILITIES, Probabilities))

(***************************************************************************)
(* C26, as the claim states it.  When the preprocessing section has no key *)
(* that names a known feature type, _upgrade_preprocessing_defaults leaves *)
(* the root `defaults` as it was: absent if it was absent, unchanged if it *)
(* was there.                                                              *)
(***************************************************************************)
C26_DefaultsOnlyForOverridesAsClaimed ==
    [][( /\ pc = "defaults"
         /\ Keys(Item(config, PREPROCESSING)) \cap base_type_registry = {} ) =>
            /\ Has(config', DEFAULTS) <=> Has(config, DEFAULTS)
            /\ Has(config, DEFAULTS) => Item(config', DEFAULTS) = Item(config, DEFAULTS)]_vars

(***************************************************************************)
(* C27.  Rename collision in a feature record: a mapping of a feature, at  *)
(* any depth, that holds both a legacy bias key and its new-name           *)
(* counterpart ends without the legacy key and with the new-name key       *)
(* holding the value the legacy key had (the value that was stored under   *)
(* the new name is overwritten).                                           *)
(***************************************************************************)
Collides(d, old) == Has(d, old) /\ Has(d, NewBiasKey(old))

C27_CollisionLegacyWins ==
    Completed =>
        \A pos \in FeaturePositions(config0) :
            \A path \in DictPaths(FeatureAt(config0, pos)) :
                \A old \in LegacyBiasKeys :
                    LET before == At(FeatureAt(config0, pos), path)
                        after == At(FeatureAt(config, pos), path)
                    IN  Collides(before, old) =>
                            /\ ~Has(after, old)
                            /\ Has(after, NewBiasKey(old))
                            /\ Item(after, NewBiasKey(old)) = Item(before, old)

C27_Witness ==
    /\ Completed
    /\ \E pos \in FeaturePositions(config0) :
           \E path \in DictPaths(FeatureAt(config0, pos)) :
               LET before == At(FeatureAt(config0, pos), path)
                   after == At(FeatureAt(config, pos), path)
               IN  /\ Len(path) >= 2
                   /\ \A old \in LegacyBiasKeys :
                          /\ Collides(before, old)
                          /\ Item(before, NewBiasKey(old)) # Item(before, old)
                          /\ Item(after, NewBiasKey(old)) = Item(before, old)

(***************************************************************************)
(* C28.  A preprocessing section that already has a split key: when a      *)
(* legacy key (force_split, split_probabilities, stratify) has a non-null  *)
(* value, the split migrator replaces the split value wholesale by the     *)
(* object built from the legacy keys, so that every field of the new split *)
(* is derived from a legacy key and no field of the old one survives; when *)
(* no legacy key is present the existing split is left as it was.          *)
(***************************************************************************)
GivenSplitKeys == {key \in LegacySplitKeys : Get(SplitInput, key, VNone) # VNone}

C28_ExistingSplitReplaced ==
    (AfterSplit /\ Has(SplitInput, SPLIT)) =>
        LET old == Item(SplitInput, SPLIT)
            split == Item(SplitOutput, SPLIT)
        IN /\ Has(SplitOutput, SPLIT)
           /\ GivenSplitKeys # {} =>
                 /\ Keys(split) =
                       (IF "split_probabilities" \in GivenSplitKeys
                        THEN {PROBABILITIES} ELSE {})
                       \cup (IF "stratify" \in GivenSplitKeys THEN {COLUMN} ELSE {})
                       \cup (IF GivenSplitKeys \cap {"stratify", "force_split"} # {}
                             THEN {TYPE} ELSE {})
                 /\ Has(split, PROBABILITIES) =>
                       Item(split, PROBABILITIES) = Item(SplitInput, "split_probabilities")
                 /\ Has(split, COLUMN) =>
                       Item(split, COLUMN) = Item(SplitInput, "stratify")
                 /\ Has(split, TYPE) =>
                       Item(split, TYPE) =
                          IF "stratify" \in GivenSplitKeys THEN VStr("stratify")
                          ELSE IF Truthy(Item(SplitInput, "force_split"))
                               THEN VStr("random") ELSE VStr("fixed")
           /\ Keys(SplitInput) \cap LegacySplitKeys = {} => split = old

C28_Witness ==
    /\ AfterSplit
    /\ pass = 1
    /\ SplitInput = Dict2(SPLIT, Dict2(TYPE, VStr("fixed"), COLUMN, VStr("old")),
                          "split_probabilities", Probabilities)
    /\ SplitOutput = Dict1(SPLIT, Dict1(PROBABILITIES, Probabilities))

(***************************************************************************)
(* C29.  Scope of the feature rewrite rule.  Only the type field at the    *)
(* top level of a feature record is rewritten: at every mapping below the  *)
(* top level of a feature the type field is as it was.  The bias keys are  *)
(* renamed only inside the elements of input_features and output_features: *)
(* outside the two feature lists no entry under a legacy or a new bias     *)
(* name appears that the document did not have, every such entry of a      *)
(* part of the document that the call keeps is still there, and the root   *)
(* sections the driver does not know are unchanged.                        *)
(***************************************************************************)
BiasNames == LegacyBiasKeys \cup {NewBiasKey(old) : old \in LegacyBiasKeys}

\* the <<key, value>> entries under a bias name in the mappings of x
RECURSIVE BiasEntries(_)
BiasEntries(x) ==
    IF IsDict(x)
    THEN {<<a, x.v[a]>> : a \in DOMAIN x.v \cap BiasNames}
         \cup UNION {BiasEntries(x.v[a]) : a \in DOMAIN x.v}
    ELSE IF IsList(x)
    THEN UNION {BiasEntries(x.v[i]) : i \in 1..Len(x.v)}
    ELSE {}

OutsideFeatures(cfg) == VMap([a \in Keys(cfg) \ FeatureKeys |-> Item(cfg, a)])

\* the document without the parts a call drops: a trainer section that a
\* training section replaces, and the hyperopt sampler
KeptParts(cfg) ==
    LET named == IF Has(cfg, TRAINING) THEN Del(cfg, TRAINER) ELSE cfg
    IN IF Has(named, HYPEROPT) /\ IsDict(Item(named, HYPEROPT))
       THEN Put(named, HYPEROPT, Del(Item(named, HYPEROPT), "sampler"))
       ELSE named

C29_RewriteScope ==
    Completed =>
        /\ \A pos \in FeaturePositions(config0) :
               \A path \in DictPaths(FeatureAt(config0, pos)) \ {<<>>} :
                   Get(At(FeatureAt(config, pos), path), TYPE, Absent)
                      = Get(At(FeatureAt(config0, pos), path), TYPE, Absent)
        /\ BiasEntries(OutsideFeatures(config))
              \subseteq BiasEntries(OutsideFeatures(config0))
        /\ BiasEntries(OutsideFeatures(KeptParts(config0)))
              \subseteq BiasEntries(OutsideFeatures(config))
        /\ \A key \in Keys(config0) \ RootSections :
               Has(config, key) /\ Item(config, key) = Item(config0, key)

C29_Witness ==
    /\ Completed
    /\ Keys(config0) = {INPUT_FEATURES, TRAINER, HYPEROPT, PREPROCESSING,
                        DEFAULTS, "combiner"}
    /\ Item(config0, INPUT_FEATURES).v[1].v["encoder"]
          = Dict2(TYPE, VStr("numerical"), "default_bias", VBool(FALSE))
    /\ Item(config, INPUT_FEATURES).v[1]
          = Dict3(TYPE, VStr("number"), "use_bias", VBool(TRUE),
                  "encoder", Dict2(TYPE, VStr("numerical"),
                                   "default_use_bias", VBool(FALSE)))
    /\ Item(config, TRAINER) = BiasedSection
    /\ Has(Item(config, HYPEROPT), "default_bias")
    /\ Has(Item(Item(config, HYPEROPT), "executor"), "bias")
    /\ Has(Item(config, PREPROCESSING), "bias")
    /\ Item(Item(Item(config, DEFAULTS), "category"), "preprocessing")
          = Dict1("conv_bias", VInt(4))
    /\ Item(config, "combiner") = Item(config0, "combiner")
    /\ Has(Item(config, "combiner"), "bias")

(***************************************************************************)
(* C30.  The driver never materializes a section that was absent.  At      *)
(* every point of a call: a document given without hyperopt has no         *)
(* hyperopt; one given with neither training nor trainer has neither; one  *)
(* given without preprocessing has no preprocessing, and has defaults only *)
(* if it was given with it; one given without input_features or            *)
(* output_features does not gain the key, and if its call fails the        *)
(* failure comes from one of its sections.  A document with none of the    *)
(* sections the driver knows is never changed and its call never fails.    *)
(***************************************************************************)
C30_NoSectionMaterialized ==
    pass = 1 =>
        /\ ~Has(config0, HYPEROPT) => ~Has(config, HYPEROPT)
        /\ (~Has(config0, TRAINING) /\ ~Has(config0, TRAINER)) =>
              (~Has(config, TRAINING) /\ ~Has(config, TRAINER))
        /\ ~Has(config0, PREPROCESSING) =>
              /\ ~Has(config, PREPROCESSING)
              /\ Has(config, DEFAULTS) => Has(config0, DEFAULTS)
        /\ \A key \in FeatureKeys : ~Has(config0, key) => ~Has(config, key)
        /\ (Keys(config0) \cap FeatureKeys = {} /\ pc = "raised") =>
              \/ NonMappings(config0) # {}
              \/ err = "KeyError" /\ Has(config0, PREPROCESSING)
        /\ Keys(config0) \cap RootSections = {} =>
              (config = config0 /\ pc # "raised")

C30_Witness ==
    /\ Completed
    /\ config0 = Dict1("model_type", VStr("ecd"))
    /\ config = config0

====
